---- MODULE Spec2Model ----
(***************************************************************************)
(* Verification model of the annotation engine of unidive-cocos:           *)
(*   scripts/05_apply_coconstruction_annotations.py   (co-construction     *)
(*       merge: load_coconstructions, parse_sentence_index,                *)
(*       validate_references, apply_annotations, main)                     *)
(*   update-conllu/apply_backchannels_to_conllu.py    (reviewed-decision   *)
(*       backchannel merge: add_or_replace_misc_feature, flush_sentence)   *)
(*   scripts/apply_backchannel_annotations.py         (candidate-CSV       *)
(*       backchannel merge: add_backchannel_to_misc, apply_annotations)    *)
(*   scripts/07_diffcheck_final_vs_src.py             (compare_pair, main) *)
(*   scripts/06_split_final_corpus.py                 (parse_blocks,       *)
(*       write_split, main)                                                *)
(*   scripts/extract_backchannels_high_recall.py,                          *)
(*   scripts/extract_backchannels_new.py,                                  *)
(*   scripts/extract_coconstruction_candidates.py     (candidate           *)
(*       extractors: parse_conllu, the pairing loops, matches_criteria,    *)
(*       the confidence rules)                                             *)
(*                                                                         *)
(* Representation of text.                                                 *)
(*  - A corpus file is the sequence of its lines.  A line is a record      *)
(*    whose field kind tells what the text looks like:                     *)
(*      "sid"     the comment  # sent_id = <sid>                           *)
(*      "newdoc", "speaker", "text"  the comments  # newdoc id = <v>,      *)
(*                # speaker_id = <v>  and  # text = <v>                    *)
(*      "comment" any other line starting with #                           *)
(*      "blank"   the empty line                                           *)
(*      "space"   a line of white space only                               *)
(*      "short"   a non-comment line that does not split into 10 columns   *)
(*      "tok"     a line of exactly 10 tab-separated columns               *)
(*    A tok line carries id (column 1), form (column 2, standing also for  *)
(*    columns 3, 5, 6 and 9), upos (column 4), head (column 7), deprel     *)
(*    (column 8), misc (column 10).                                        *)
(*  - A MISC column is the sequence of its "|"-separated entries, that is  *)
(*    the value of  misc.split("|") ; joining with "|" is the inverse.     *)
(*    The text "_" is the one-entry sequence <<Underscore>>.  An entry is  *)
(*    a record [k, v]: the text before the first "=", and the "::"-        *)
(*    separated parts after it.                                            *)
(*  - Sentence ids, deprels and token ids are strings free of tab, "|",    *)
(*    "=" and ":" (the values the corpus and the review sheets hold).      *)
(*  - Every line of a file ends with a newline, so a file is determined by *)
(*    its line sequence; MISC columns carry no surrounding white space.    *)
(***************************************************************************)
EXTENDS Integers, Sequences, FiniteSets, TLC

VARIABLES
    script,   \* which program runs: "coco" | "bc" | "csv" | "diff" | "load"
    pc,       \* position in that program's main
    run,      \* 1 on the first run, 2 when the program runs again on its own output
    rows,     \* the raw review sheet (load_coconstructions' input)
    ann,      \* the accepted decisions in memory: a function b_sent_id -> row
    lines,    \* the lines of the input corpus file
    out,      \* the output lines the run has computed in memory
    file,     \* the lines of the output file, NoFile while it does not exist
    err,      \* "none", or the error the run ended with
    warned,   \* number of decisions the run skipped with only a warning
    cnt,      \* compare_pair's counters
    report    \* the diff check's report: its sections and the overall status

vars == <<script, pc, run, rows, ann, lines, out, file, err, warned, cnt, report>>

-----------------------------------------------------------------------------
(* Bounds of the model *)

\* sentences (blank-line-terminated blocks) per corpus
MaxSents == 2
\* rows per review sheet
MaxRows == 2

\* the most sentences of a corpus the three extractors are compared on
MaxPairTurns == 3

\* the most sentences of a corpus given to the high-recall extractor
MaxTurns == 4

\* the most tokens of B the confidence rules are evaluated on
MaxNTok == 7

-----------------------------------------------------------------------------
(* Text values *)

SentIds == {"s1", "s2"}
Deprels == {"d1", "d2"}

\* str(n) for the token ids the model uses
IntStr(n) ==
    CASE n = 0 -> "0" [] n = 1 -> "1" [] n = 2 -> "2" [] n = 3 -> "3"
      [] n = 4 -> "4" [] n = 5 -> "5" [] n = 6 -> "6" [] OTHER -> "7"

\* s.isdigit()
IsDigit(s) == s \in {"0", "1", "2", "3", "4", "5", "6", "7"}

\* int(s) for a digit string
StrInt(s) ==
    CASE s = "0" -> 0 [] s = "1" -> 1 [] s = "2" -> 2 [] s = "3" -> 3
      [] s = "4" -> 4 [] s = "5" -> 5 [] s = "6" -> 6 [] OTHER -> 7

\* "-" in tid or "." in tid
HasRangeOrDecimal(tid) == tid \in {"1-2", "1.1"}

Underscore == [k |-> "_", v |-> <<>>]
EmptyEntry == [k |-> "", v |-> <<>>]
SpaceAfter == [k |-> "SpaceAfter", v |-> <<"No">>]
CocoOld    == [k |-> "Coconstruct", v |-> <<"d0", "s0", "1">>]
BcOld      == [k |-> "Backchannel", v |-> <<"s0", "1">>]

\* p.startswith(key + "=")
StartsWithKey(p, key) == p.k = key

\* (key + "=") in misc, for the text of a MISC column: the keys and values of
\* the model are free of "=", so the text occurs only at the start of an entry
MiscHasText(misc, key) == \E i \in 1..Len(misc) : StartsWithKey(misc[i], key)

\* p in misc.split("|")
InMisc(p, misc) == \E i \in 1..Len(misc) : misc[i] = p

-----------------------------------------------------------------------------
(* Lines *)

NoCols == [id |-> "", form |-> "", upos |-> "", head |-> "", deprel |-> "", misc |-> <<>>]

SidLine(s) == [kind |-> "sid", sid |-> s, cols |-> NoCols]
CommentLine == [kind |-> "comment", sid |-> "", cols |-> NoCols]
BlankLine == [kind |-> "blank", sid |-> "", cols |-> NoCols]
SpaceLine == [kind |-> "space", sid |-> "", cols |-> NoCols]
ShortLine == [kind |-> "short", sid |-> "", cols |-> NoCols]
\* a token line whose UPOS column is given
UposLine(id, form, upos, head, deprel, misc) ==
    [kind |-> "tok", sid |-> "",
     cols |-> [id |-> id, form |-> form, upos |-> upos, head |-> head,
               deprel |-> deprel, misc |-> misc]]

\* a token line whose UPOS column is "X"
TokLine(id, form, head, deprel, misc) == UposLine(id, form, "X", head, deprel, misc)

\* "# newdoc id = v", "# speaker_id = v", "# text = v": the value is kept in sid
NewdocLine(v) == [kind |-> "newdoc", sid |-> v, cols |-> NoCols]
SpeakerLine(v) == [kind |-> "speaker", sid |-> v, cols |-> NoCols]
TextLine(v) == [kind |-> "text", sid |-> v, cols |-> NoCols]

\* line.startswith("#")
StartsHash(line) == line.kind \in {"sid", "comment", "newdoc", "speaker", "text"}

\* line.startswith("# sent_id = ")
IsSidLine(line) == line.kind = "sid"

\* line == ""
IsEmpty(line) == line.kind = "blank"

\* line.strip() == ""
IsBlankStripped(line) == line.kind \in {"blank", "space"}

\* len(line.split("\t")) == 10
HasTenCols(line) == line.kind = "tok"

\* the line with column 10 replaced: "\t".join(cols) after cols[9] = misc
WithMisc(line, misc) == [line EXCEPT !.cols.misc = misc]

-----------------------------------------------------------------------------
(* scripts/05_apply_coconstruction_annotations.py *)

\* Optional[str] = None
None == "<None>"

\* TokenInfo.head when column 7 is not a digit string
NoHead == -1

CocoRow(a, b, dep, gov) ==
    [a_sent_id |-> a, b_sent_id |-> b, deprel |-> dep, governor_token_id |-> gov]

TokenInfo(cols) ==
    [tid |-> StrInt(cols.id),
     head |-> IF IsDigit(cols.head) THEN StrInt(cols.head) ELSE NoHead,
     deprel |-> cols.deprel]

\* sent_map[key] = value
DictPut(d, key, value) ==
    [x \in (DOMAIN d) \cup {key} |-> IF x = key THEN value ELSE d[x]]

EmptyDict == [x \in {} |-> <<>>]

\* the nested flush(): stores the pending sentence unless it has no sent_id
IndexFlush(sent_map, meta_sid, toks) ==
    IF meta_sid = None THEN sent_map ELSE DictPut(sent_map, meta_sid, toks)

RECURSIVE IndexFrom(_, _, _, _, _)
IndexFrom(ls, i, sent_map, meta_sid, toks) ==
    IF i > Len(ls) THEN IndexFlush(sent_map, meta_sid, toks)
    ELSE LET line == ls[i] IN
         IF IsEmpty(line)
           THEN IndexFrom(ls, i + 1, IndexFlush(sent_map, meta_sid, toks), None, <<>>)
         ELSE IF IsSidLine(line)
           THEN IndexFrom(ls, i + 1, sent_map, line.sid, toks)
         ELSE IF StartsHash(line) \/ ~HasTenCols(line)
                 \/ HasRangeOrDecimal(line.cols.id) \/ ~IsDigit(line.cols.id)
           THEN IndexFrom(ls, i + 1, sent_map, meta_sid, toks)
         ELSE IndexFrom(ls, i + 1, sent_map, meta_sid, Append(toks, TokenInfo(line.cols)))

\* parse_sentence_index(lines): sent_id -> the TokenInfo list of the sentence
parse_sentence_index(ls) == IndexFrom(ls, 1, EmptyDict, None, <<>>)

\* faulty variant: only the first root of the sentence is collected
RootsOf_FirstOnly(toks) ==
    {i \in 1..Len(toks) :
        /\ (toks[i].head = 0 \/ toks[i].deprel = "root")
        /\ \A j \in 1..(i - 1) : ~(toks[j].head = 0 \/ toks[j].deprel = "root")}

\* roots = [t for t in sents[b_sid].tokens if t.head == 0 or t.deprel == "root"]
RootsOf(toks) == {i \in 1..Len(toks) : toks[i].head = 0 \/ toks[i].deprel = "root"}

\* faulty variant: the check that the governor token exists in sentence A is left out
ReferenceOk_NoGovernorCheck(row, b_sid, sents) ==
    /\ row.a_sent_id \in DOMAIN sents
    /\ b_sid \in DOMAIN sents
    /\ Cardinality(RootsOf(sents[b_sid])) = 1

\* the four checks validate_references makes for one decision
ReferenceOk(row, b_sid, sents) ==
    /\ row.a_sent_id \in DOMAIN sents
    /\ b_sid \in DOMAIN sents
    /\ \E i \in 1..Len(sents[row.a_sent_id]) :
           sents[row.a_sent_id][i].tid = row.governor_token_id
    /\ Cardinality(RootsOf(sents[b_sid])) = 1

\* validate_references(ann, sents) returns normally (raises ValueError otherwise)
validate_references(a, sents) == \A b_sid \in DOMAIN a : ReferenceOk(a[b_sid], b_sid, sents)

\* faulty variant: the key is written under a name the diff check does not know
CocoFeature_OtherKey(row) ==
    [k |-> "CoConstruct",
     v |-> <<row.deprel, row.a_sent_id, IntStr(row.governor_token_id)>>]

\* f"Coconstruct={row.deprel}::{row.a_sent_id}::{row.governor_token_id}"
CocoFeature(row) ==
    [k |-> "Coconstruct",
     v |-> <<row.deprel, row.a_sent_id, IntStr(row.governor_token_id)>>]

\* faulty variant: the feature is appended without looking for it in MISC
CocoMisc_AlwaysAppend(misc, feature) ==
    IF misc = <<Underscore>> THEN <<feature>> ELSE Append(misc, feature)

\* lines 197-201: the new text of column 10
CocoMisc(misc, feature) ==
    IF misc = <<Underscore>> THEN <<feature>>
    ELSE IF ~InMisc(feature, misc) THEN Append(misc, feature)
    ELSE misc

\* the loop body's test at line 194, after the pass-through cases of lines 175-192
CocoPatches(line, current_sid, a) ==
    /\ ~StartsHash(line) /\ ~IsEmpty(line)
    /\ HasTenCols(line)
    /\ ~HasRangeOrDecimal(line.cols.id)
    /\ current_sid \in DOMAIN a
    /\ line.cols.head = "0"

RECURSIVE CocoApplyFrom(_, _, _, _, _)
CocoApplyFrom(ls, i, a, current_sid, acc) ==
    IF i > Len(ls) THEN acc
    ELSE LET line == ls[i] IN
         IF IsSidLine(line)
           THEN CocoApplyFrom(ls, i + 1, a, line.sid, Append(acc, line))
         ELSE IF CocoPatches(line, current_sid, a)
           THEN CocoApplyFrom(ls, i + 1, a, current_sid,
                    Append(acc, WithMisc(line, CocoMisc(line.cols.misc,
                                                        CocoFeature(a[current_sid])))))
         ELSE CocoApplyFrom(ls, i + 1, a, current_sid, Append(acc, line))

\* apply_annotations(lines, ann)[0]
coco_apply_annotations(ls, a) == CocoApplyFrom(ls, 1, a, None, <<>>)

RECURSIVE CocoAppliedFrom(_, _, _, _)
CocoAppliedFrom(ls, i, a, current_sid) ==
    IF i > Len(ls) THEN 0
    ELSE IF IsSidLine(ls[i]) THEN CocoAppliedFrom(ls, i + 1, a, ls[i].sid)
    ELSE (IF CocoPatches(ls[i], current_sid, a) THEN 1 ELSE 0)
         + CocoAppliedFrom(ls, i + 1, a, current_sid)

\* apply_annotations(lines, ann)[1]: applied
coco_applied(ls, a) == CocoAppliedFrom(ls, 1, a, None)

\* YES_VALUES, as far as the sheets of the model use them
YES_VALUES == {"1", "yes", "y", "true"}

\* int(float(gov_raw)) for the cell texts of the model
GovInt(gov_raw) ==
    CASE gov_raw = "1" -> 1 [] gov_raw = "1.0" -> 1 [] gov_raw = "2" -> 2
      [] gov_raw = "2.0" -> 2 [] OTHER -> 3

\* lines 71-73: the optional filter column drops the row
RowFiltered(raw) ==
    raw.is_coconstruction # "" /\ raw.is_coconstruction \notin YES_VALUES

\* line 84: a row with an empty required cell is skipped
RowIncomplete(raw) ==
    raw.a_sent_id = "" \/ raw.b_sent_id = "" \/ raw.coconstruct_deprel = ""
    \/ raw.governor_token_id = ""

\* line 92
RowOf(raw) ==
    CocoRow(raw.a_sent_id, raw.b_sent_id, raw.coconstruct_deprel,
            GovInt(raw.governor_token_id))

\* faulty variant: only the a_sent_id of the two rows is compared
ConflictsWith_SentIdOnly(a, row) ==
    row.b_sent_id \in DOMAIN a /\ a[row.b_sent_id].a_sent_id # row.a_sent_id

\* line 95: prev and prev != row, for prev = ann.get(b_sid)
ConflictsWith(a, row) ==
    row.b_sent_id \in DOMAIN a /\ a[row.b_sent_id] # row

\* the loop of lines 67-100: the decisions, or the error it raised
RECURSIVE LoadFrom(_, _, _)
LoadFrom(rs, i, a) ==
    IF i > Len(rs) THEN [error |-> "none", ann |-> a]
    ELSE IF RowFiltered(rs[i]) \/ RowIncomplete(rs[i]) THEN LoadFrom(rs, i + 1, a)
    ELSE IF ConflictsWith(a, RowOf(rs[i])) THEN [error |-> "ValueError", ann |-> a]
    ELSE LoadFrom(rs, i + 1, DictPut(a, rs[i].b_sent_id, RowOf(rs[i])))

\* load_coconstructions(path), for the rows of the sheet at path
load_coconstructions(rs) == LoadFrom(rs, 1, EmptyDict)

-----------------------------------------------------------------------------
(* scripts/07_diffcheck_final_vs_src.py *)

Max(a, b) == IF a >= b THEN a ELSE b

RECURSIVE SidsFrom(_, _)
SidsFrom(ls, i) ==
    IF i > Len(ls) THEN <<>>
    ELSE IF IsSidLine(ls[i]) THEN <<ls[i].sid>> \o SidsFrom(ls, i + 1)
    ELSE SidsFrom(ls, i + 1)

\* [ln.split("=", 1)[1].strip() for ln in src if ln.startswith("# sent_id = ")]
SidSequence(ls) == SidsFrom(ls, 1)

\* faulty variant: range(6) for range(9): HEAD and DEPREL are not compared
SameFirstNine_SixColumns(a, b) ==
    /\ a.cols.id = b.cols.id
    /\ a.cols.form = b.cols.form
    /\ a.cols.upos = b.cols.upos

\* all(ac[j] == bc[j] for j in range(9))
SameFirstNine(a, b) ==
    /\ a.cols.id = b.cols.id
    /\ a.cols.form = b.cols.form
    /\ a.cols.upos = b.cols.upos
    /\ a.cols.head = b.cols.head
    /\ a.cols.deprel = b.cols.deprel

\* "Backchannel=" in bc[9] and "Backchannel=" not in ac[9]  (likewise Coconstruct=)
AddedKey(a, b, key) ==
    MiscHasText(b.cols.misc, key) /\ ~MiscHasText(a.cols.misc, key)

\* the category lines 28-72 give to line i of the two files ("same" when a == b)
DiffCategory(s, o, i) ==
    IF i > Len(s) \/ i > Len(o) THEN "line_count_mismatch"
    ELSE LET a == s[i]
             b == o[i]
         IN  IF a = b THEN "same"
             ELSE IF StartsHash(a) \/ StartsHash(b) \/ IsEmpty(a) \/ IsEmpty(b)
               THEN "meta_or_blank_changed"
             ELSE IF ~HasTenCols(a) \/ ~HasTenCols(b)
               THEN "non_10col_token_changed"
             ELSE IF SameFirstNine(a, b) /\ a.cols.misc # b.cols.misc
               THEN IF AddedKey(a, b, "Backchannel") \/ AddedKey(a, b, "Coconstruct")
                      THEN "misc_added"
                      ELSE "misc_other_change"
             ELSE "token_cols_0_8_changed"

CountCategory(s, o, cat) ==
    Cardinality({i \in 1..Max(Len(s), Len(o)) : DiffCategory(s, o, i) = cat})

CountAdded(s, o, key) ==
    Cardinality({i \in 1..Max(Len(s), Len(o)) :
                    /\ DiffCategory(s, o, i) \in {"misc_added", "misc_other_change"}
                    /\ AddedKey(s[i], o[i], key)})

NoCount ==
    [sent_id_sequence_mismatch |-> 0, diff_lines |-> 0, line_count_mismatch |-> 0,
     meta_or_blank_changed |-> 0, non_10col_token_changed |-> 0,
     misc_only_changes |-> 0, added_backchannel |-> 0, added_coconstruct |-> 0,
     misc_other_change |-> 0, token_cols_0_8_changed |-> 0]

\* faulty variant: no continue after meta_or_blank_changed is counted
compare_pair_FallThrough(s, o) ==
    [sent_id_sequence_mismatch |-> IF SidSequence(s) # SidSequence(o) THEN 1 ELSE 0,
     diff_lines |->
         Cardinality({i \in 1..Max(Len(s), Len(o)) : DiffCategory(s, o, i) # "same"}),
     line_count_mismatch |-> CountCategory(s, o, "line_count_mismatch"),
     meta_or_blank_changed |-> CountCategory(s, o, "meta_or_blank_changed"),
     non_10col_token_changed |->
         CountCategory(s, o, "non_10col_token_changed")
         + Cardinality({i \in 1..Max(Len(s), Len(o)) :
                          /\ DiffCategory(s, o, i) = "meta_or_blank_changed"
                          /\ ~HasTenCols(s[i]) \/ ~HasTenCols(o[i])}),
     misc_only_changes |->
         CountCategory(s, o, "misc_added") + CountCategory(s, o, "misc_other_change"),
     added_backchannel |-> CountAdded(s, o, "Backchannel"),
     added_coconstruct |-> CountAdded(s, o, "Coconstruct"),
     misc_other_change |-> CountCategory(s, o, "misc_other_change"),
     token_cols_0_8_changed |-> CountCategory(s, o, "token_cols_0_8_changed")]

\* compare_pair(src, out)[0]
compare_pair(s, o) ==
    [sent_id_sequence_mismatch |-> IF SidSequence(s) # SidSequence(o) THEN 1 ELSE 0,
     diff_lines |->
         Cardinality({i \in 1..Max(Len(s), Len(o)) : DiffCategory(s, o, i) # "same"}),
     line_count_mismatch |-> CountCategory(s, o, "line_count_mismatch"),
     meta_or_blank_changed |-> CountCategory(s, o, "meta_or_blank_changed"),
     non_10col_token_changed |-> CountCategory(s, o, "non_10col_token_changed"),
     misc_only_changes |->
         CountCategory(s, o, "misc_added") + CountCategory(s, o, "misc_other_change"),
     added_backchannel |-> CountAdded(s, o, "Backchannel"),
     added_coconstruct |-> CountAdded(s, o, "Coconstruct"),
     misc_other_change |-> CountCategory(s, o, "misc_other_change"),
     token_cols_0_8_changed |-> CountCategory(s, o, "token_cols_0_8_changed")]

\* faulty variant: misc_other_change is left out of the sum
Unexpected_NoMiscChange(c) ==
    c.line_count_mismatch + c.meta_or_blank_changed + c.non_10col_token_changed
    + c.token_cols_0_8_changed + c.sent_id_sequence_mismatch

\* main, lines 101-108
Unexpected(c) ==
    c.line_count_mismatch + c.meta_or_blank_changed + c.non_10col_token_changed
    + c.token_cols_0_8_changed + c.misc_other_change + c.sent_id_sequence_mismatch

\* main, lines 109 and 128: the section's status
SectionStatus(c) == IF Unexpected(c) = 0 THEN "PASS" ELSE "FAIL"

-----------------------------------------------------------------------------
(* update-conllu/apply_backchannels_to_conllu.py *)

\* [p for p in parts if not p.startswith(f"{key}=")]
RECURSIVE DropKey(_, _)
DropKey(parts, key) ==
    IF parts = <<>> THEN <<>>
    ELSE IF StartsWithKey(Head(parts), key) THEN DropKey(Tail(parts), key)
    ELSE <<Head(parts)>> \o DropKey(Tail(parts), key)

\* faulty variant: the entries that already start with the key are kept
add_or_replace_misc_feature_KeepOld(misc, entry) ==
    LET parts == IF misc = <<EmptyEntry>> \/ misc = <<Underscore>> THEN <<>> ELSE misc
    IN  Append(parts, entry)

\* add_or_replace_misc_feature(misc, key, value), entry = key=value
add_or_replace_misc_feature(misc, entry) ==
    LET parts == IF misc = <<EmptyEntry>> \/ misc = <<Underscore>> THEN <<>> ELSE misc
    IN  Append(DropKey(parts, entry.k), entry)

\* parse_token_cols(line) is not None
ParsesAsToken(line) == HasTenCols(line) /\ ~HasRangeOrDecimal(line.cols.id)

\* lines 110-119: index of the first token line with HEAD = 0, or 0 (None)
RootLineIdx(sent_lines) ==
    LET roots == {i \in 1..Len(sent_lines) :
                     ParsesAsToken(sent_lines[i]) /\ sent_lines[i].cols.head = "0"}
    IN  IF roots = {} THEN 0 ELSE CHOOSE i \in roots : \A j \in roots : i <= j

\* f"Backchannel={a_sent_id}::{a_root_id}"
BcFeature(a_sent_id, a_root_id) == [k |-> "Backchannel", v |-> <<a_sent_id, a_root_id>>]

\* the state the streaming loop carries: seen_roots, sent_lines, cur_sent_id,
\* what was written to the output, and the counters
BcStart ==
    [seen_roots |-> [x \in {} |-> ""], sent_lines |-> <<>>, cur_sent_id |-> None,
     w |-> <<>>, patched |-> 0, missing_a_root |-> 0, missing_b_root |-> 0]

\* flush_sentence(w), followed by the loop's reset of sent_lines and cur_sent_id
flush_sentence(st, b_to_a) ==
    IF st.sent_lines = <<>>
      THEN [st EXCEPT !.w = Append(@, BlankLine), !.cur_sent_id = None]
    ELSE
      LET idx == RootLineIdx(st.sent_lines)
          sid == st.cur_sent_id
          hasSid == sid # None /\ sid # ""
          seen == IF hasSid /\ idx # 0
                    THEN DictPut(st.seen_roots, sid, st.sent_lines[idx].cols.id)
                    ELSE st.seen_roots
          isB == hasSid /\ sid \in DOMAIN b_to_a
          aKnown == isB /\ b_to_a[sid] \in DOMAIN seen
          doPatch == aKnown /\ idx # 0
          patchedLines ==
              IF doPatch
                THEN [st.sent_lines EXCEPT ![idx] =
                        WithMisc(@, add_or_replace_misc_feature(@.cols.misc,
                                        BcFeature(b_to_a[sid], seen[b_to_a[sid]])))]
                ELSE st.sent_lines
      IN  [seen_roots |-> seen,
           sent_lines |-> <<>>,
           cur_sent_id |-> None,
           w |-> st.w \o patchedLines \o <<BlankLine>>,
           patched |-> st.patched + (IF doPatch THEN 1 ELSE 0),
           missing_a_root |-> st.missing_a_root + (IF isB /\ ~aKnown THEN 1 ELSE 0),
           missing_b_root |-> st.missing_b_root + (IF aKnown /\ idx = 0 THEN 1 ELSE 0)]

\* lines 146-161: the loop over the input lines and the final flush
RECURSIVE BcStream(_, _, _, _)
BcStream(ls, i, st, b_to_a) ==
    IF i > Len(ls)
      THEN IF st.sent_lines # <<>> THEN flush_sentence(st, b_to_a) ELSE st
    ELSE IF IsBlankStripped(ls[i])
      THEN BcStream(ls, i + 1, flush_sentence(st, b_to_a), b_to_a)
    ELSE BcStream(ls, i + 1,
             [st EXCEPT !.sent_lines = Append(@, ls[i]),
                        !.cur_sent_id = IF IsSidLine(ls[i]) THEN ls[i].sid ELSE @],
             b_to_a)

-----------------------------------------------------------------------------
(* scripts/apply_backchannel_annotations.py *)

\* parse_conllu_line(line) returns fields: a 10-column line that is neither
\* blank nor a comment (range and decimal ids included)
ParsesAsConlluLine(line) ==
    ~IsBlankStripped(line) /\ ~StartsHash(line) /\ HasTenCols(line)

\* find_root_token_id(lines, sent_id): the id, or None
RECURSIVE FindRootFrom(_, _, _, _)
FindRootFrom(ls, i, sent_id, in_target_sentence) ==
    IF i > Len(ls) THEN None
    ELSE IF IsSidLine(ls[i]) THEN FindRootFrom(ls, i + 1, sent_id, ls[i].sid = sent_id)
    ELSE IF ~in_target_sentence THEN FindRootFrom(ls, i + 1, sent_id, FALSE)
    ELSE IF ParsesAsConlluLine(ls[i]) /\ ls[i].cols.head = "0" THEN ls[i].cols.id
    ELSE IF IsBlankStripped(ls[i]) THEN None
    ELSE FindRootFrom(ls, i + 1, sent_id, TRUE)

find_root_token_id(ls, sent_id) == FindRootFrom(ls, 1, sent_id, FALSE)

\* lines 123-136: B_sent_id -> the Backchannel entry, over the candidates in order
RECURSIVE BackchannelMap(_, _, _, _)
BackchannelMap(ls, candidates, i, m) ==
    IF i > Len(candidates) THEN m
    ELSE LET c == candidates[i]
             root_token_id == find_root_token_id(ls, c.A_sent_id)
         IN  IF root_token_id # None
               THEN BackchannelMap(ls, candidates, i + 1,
                        DictPut(m, c.B_sent_id, BcFeature(c.A_sent_id, root_token_id)))
               ELSE BackchannelMap(ls, candidates, i + 1, m)

\* add_backchannel_to_misc(misc_value, backchannel_ref)
add_backchannel_to_misc(misc, entry) ==
    IF misc = <<Underscore>> THEN <<entry>> ELSE Append(misc, entry)

\* lines 139-176: the loop that writes modified_lines
RECURSIVE CsvApplyFrom(_, _, _, _, _, _)
CsvApplyFrom(ls, i, m, current_sent_id, first_token_in_sentence, acc) ==
    IF i > Len(ls) THEN acc
    ELSE LET line == ls[i] IN
         IF IsSidLine(line)
           THEN CsvApplyFrom(ls, i + 1, m, line.sid, TRUE, Append(acc, line))
         ELSE IF ParsesAsConlluLine(line) /\ first_token_in_sentence
           THEN CsvApplyFrom(ls, i + 1, m, current_sent_id, FALSE,
                    Append(acc, IF current_sent_id \in DOMAIN m
                                  THEN WithMisc(line, add_backchannel_to_misc(
                                                    line.cols.misc, m[current_sent_id]))
                                  ELSE line))
         ELSE CsvApplyFrom(ls, i + 1, m, current_sent_id,
                  first_token_in_sentence \/ IsBlankStripped(line), Append(acc, line))

\* apply_annotations(conllu_lines, candidates)[0]
csv_apply_annotations(ls, candidates) ==
    CsvApplyFrom(ls, 1, BackchannelMap(ls, candidates, 1, [x \in {} |-> Underscore]),
                 None, TRUE, <<>>)

\* stats['total_candidates'] - stats['found_roots'] > 0: a WARNING was printed
CsvMissingRoots(ls, candidates) ==
    Cardinality({i \in 1..Len(candidates) :
                    find_root_token_id(ls, candidates[i].A_sent_id) = None})

-----------------------------------------------------------------------------
(* Input corpora: sequences of at most MaxSents sentence blocks *)

Root(id, misc) == TokLine(id, "w", "0", "root", misc)
Dep(id, head) == TokLine(id, "w", head, "dep", <<Underscore>>)
Mwt == TokLine("1-2", "w", "_", "_", <<Underscore>>)

Headers == {<<>>} \cup {<<SidLine(s)>> : s \in SentIds}

Bodies ==
    { <<Root("1", <<Underscore>>)>>,
      <<Root("1", <<BcOld, SpaceAfter, CocoOld>>)>>,
      <<CommentLine, Mwt, Dep("1", "2"), Root("2", <<SpaceAfter>>)>>,
      <<Root("1", <<Underscore>>), Root("2", <<Underscore>>)>>,
      <<Dep("1", "_")>>,
      <<ShortLine, TokLine("1", "w", "_", "root", <<Underscore>>)>>,
      <<Root("1", <<Underscore>>), SpaceLine, Root("1", <<SpaceAfter>>)>> }

Blocks == {h \o b : h \in Headers, b \in Bodies}

\* the sequences of n0 to n1 blocks
BlockSeqs(n0, n1) == UNION {[1..n -> Blocks] : n \in n0..n1}

RECURSIVE Flatten(_)
Flatten(bs) ==
    IF bs = <<>> THEN <<>> ELSE Head(bs) \o <<BlankLine>> \o Flatten(Tail(bs))

Corpora == {Flatten(bs) : bs \in BlockSeqs(0, MaxSents)}

\* the decision tables load_coconstructions can return for these corpora:
\* no decision, one decision (any A, governor 1 or 2), or one per sentence
\* (any A, governor 1)
CocoRows(b, govs) == {CocoRow(a, b, "d1", g) : a \in SentIds, g \in govs}

Anns ==
    {EmptyDict}
    \cup UNION {{[x \in {b} |-> r] : r \in CocoRows(b, {1, 2})} : b \in SentIds}
    \cup {[x \in SentIds |-> CocoRow(f[x], x, "d1", 1)] : f \in [SentIds -> SentIds]}

\* the accepted decisions B_sent_id -> A_sent_id of the backchannel merge
BcDecisions == UNION {[T -> SentIds] : T \in SUBSET SentIds}

\* the candidate rows of the candidate-CSV merge, in file order
Candidates ==
    UNION {[1..n -> [B_sent_id : SentIds, A_sent_id : SentIds]] : n \in 0..MaxRows}

Front(ls) == SubSeq(ls, 1, Len(ls) - 1)

\* the corpora, and corpora of fewer sentences whose last sentence is not
\* followed by an empty line
CorporaAnyEnd ==
    Corpora \cup {Front(Flatten(bs)) : bs \in BlockSeqs(1, MaxSents - 1)}

\* the corpora compare_pair is run on with an altered copy
DiffBodies ==
    { <<Root("1", <<Underscore>>)>>,
      <<Root("1", <<BcOld, SpaceAfter, CocoOld>>)>>,
      <<CommentLine, Mwt, Dep("1", "2"), Root("2", <<SpaceAfter>>)>> }

DiffBlocks == {h \o b : h \in {<<>>, <<SidLine("s1")>>}, b \in DiffBodies}

DiffCorpora == {Flatten(bs) : bs \in UNION {[1..n -> DiffBlocks] : n \in 0..MaxSents}}

NoFile == <<[kind |-> "nofile", sid |-> "", cols |-> NoCols]>>

\* the report of 07_diffcheck_final_vs_src.py before any section is compared
NoReport == [overall_ok |-> TRUE, sections |-> <<>>, overall |-> "none"]

-----------------------------------------------------------------------------
(* main of 05_apply_coconstruction_annotations.py, from line 234 on *)

\* out_path.write_text("\n".join(out_lines) + "\n") read back with splitlines()
FileLines(ls) == IF ls = <<>> THEN <<BlankLine>> ELSE ls

InitCoco ==
    /\ script = "coco"
    /\ pc = "start"
    /\ run = 1
    /\ rows = <<>>
    /\ ann \in Anns
    /\ lines \in Corpora
    /\ out = <<>>
    /\ file = NoFile
    /\ err = "none"
    /\ warned = 0
    /\ cnt = NoCount
    /\ report = NoReport

\* lines 235-236: parse_sentence_index, validate_references
CocoValidate ==
    /\ script = "coco" /\ pc = "start"
    /\ IF validate_references(ann, parse_sentence_index(lines))
         THEN pc' = "validated" /\ err' = err
         ELSE pc' = "aborted" /\ err' = "ValueError"
    /\ UNCHANGED <<script, run, rows, ann, lines, out, file, warned, cnt, report>>

\* line 238: apply_annotations; rows holds the count applied
CocoApply ==
    /\ script = "coco" /\ pc = "validated"
    /\ out' = coco_apply_annotations(lines, ann)
    /\ rows' = <<[applied |-> coco_applied(lines, ann)]>>
    /\ pc' = "applied"
    /\ UNCHANGED <<script, run, ann, lines, file, err, warned, cnt, report>>

\* lines 239-240: the output file is created and written
CocoWrite ==
    /\ script = "coco" /\ pc = "applied"
    /\ file' = FileLines(out)
    /\ pc' = "done"
    /\ UNCHANGED <<script, run, rows, ann, lines, out, err, warned, cnt, report>>

\* the same program is run again, with the same decisions, on its own output
Rerun ==
    /\ pc = "done" /\ run = 1
    /\ lines' = file
    /\ run' = 2
    /\ pc' = "start"
    /\ out' = <<>>
    /\ file' = NoFile
    /\ warned' = 0
    /\ UNCHANGED <<script, rows, ann, err, cnt, report>>

\* 07_diffcheck_final_vs_src.py on the input and the output of the first run
DiffCheck ==
    /\ pc = "done" /\ run = 1
    /\ cnt' = compare_pair(lines, file)
    /\ pc' = "checked"
    /\ UNCHANGED <<script, run, rows, ann, lines, out, file, err, warned, report>>

NextCoco == CocoValidate \/ CocoApply \/ CocoWrite \/ Rerun \/ DiffCheck

SpecCoco == InitCoco /\ [][NextCoco]_vars

-----------------------------------------------------------------------------
(* apply_annotations of 05_apply_coconstruction_annotations.py as a function *)
(* of any lines and any decision table                                       *)

InitApply ==
    /\ script = "apply"
    /\ pc = "start"
    /\ run = 1
    /\ rows = <<>>
    /\ ann \in Anns
    /\ lines \in Corpora
    /\ out = <<>>
    /\ file = NoFile
    /\ err = "none"
    /\ warned = 0
    /\ cnt = NoCount
    /\ report = NoReport

\* out = apply_annotations(lines, ann)
ApplyOnce ==
    /\ script = "apply" /\ pc = "start"
    /\ out' = coco_apply_annotations(lines, ann)
    /\ pc' = "applied"
    /\ UNCHANGED <<script, run, rows, ann, lines, file, err, warned, cnt, report>>

\* out = apply_annotations(out, ann): the function applied to its own result
ApplyAgain ==
    /\ script = "apply" /\ pc = "applied" /\ run = 1
    /\ lines' = out
    /\ out' = coco_apply_annotations(out, ann)
    /\ run' = 2
    /\ UNCHANGED <<script, pc, rows, ann, file, err, warned, cnt, report>>

NextApply == ApplyOnce \/ ApplyAgain

SpecApply == InitApply /\ [][NextApply]_vars

-----------------------------------------------------------------------------
(* Vocabulary of the claims, stated on the text of the corpus alone *)

\* lines i and j lie in the same maximal run of non-empty lines
SameBlock(ls, i, j) ==
    \A n \in 1..Len(ls) : ((i <= n /\ n <= j) \/ (j <= n /\ n <= i)) => ~IsEmpty(ls[n])

\* the sent_ids stated by the block that holds line i
BlockSids(ls, i) ==
    {ls[j].sid : j \in {n \in 1..Len(ls) : IsSidLine(ls[n]) /\ SameBlock(ls, i, n)}}

\* a token line: 10 columns, id without "-" or "."
IsTokenLine(line) == HasTenCols(line) /\ ~HasRangeOrDecimal(line.cols.id)

\* the structural root of the data model: head = 0 or deprel = "root"
IsRootLine(line) ==
    IsTokenLine(line) /\ (line.cols.head = "0" \/ line.cols.deprel = "root")

\* every entry of MISC column m (none when it is "_") is an entry of n
EntriesKept(m, n) == m = <<Underscore>> \/ \A i \in 1..Len(m) : InMisc(m[i], n)

\* the entries of a MISC column that start with key=
KeyEntries(m, key) == {i \in 1..Len(m) : StartsWithKey(m[i], key)}

\* the sentence ids the corpus states
CorpusSids(ls) == {ls[i].sid : i \in {n \in 1..Len(ls) : IsSidLine(ls[n])}}

\* the token ids of the sentences named sid
TokenIds(ls, sid) ==
    {StrInt(ls[i].cols.id) :
        i \in {n \in 1..Len(ls) : IsTokenLine(ls[n]) /\ sid \in BlockSids(ls, n)}}

-----------------------------------------------------------------------------
(* C1 *)

\* C1 allows line i to change: a HEAD = 0 token line of a block whose own sent_id
\* is a decision target, columns 1-9 and the old MISC entries kept
C1_ChangeAllowed(i) ==
    /\ IsTokenLine(lines[i])
    /\ lines[i].cols.head = "0"
    /\ BlockSids(lines, i) \cap DOMAIN ann # {}
    /\ out[i].kind = "tok"
    /\ SameFirstNine(lines[i], out[i])
    /\ EntriesKept(lines[i].cols.misc, out[i].cols.misc)

\* C1: apply_annotations keeps the number of lines, and changes a line only if
\* it is a HEAD = 0 token line of a sentence block whose own sent_id is a
\* decision target (then only by adding to MISC); no line of a block that is
\* not a decision target, such as a block without sent_id, is changed.
C1_MergeFrame ==
    (script = "apply" /\ pc = "applied" /\ run = 1) =>
        /\ Len(out) = Len(lines)
        /\ \A i \in 1..Len(lines) : out[i] # lines[i] => C1_ChangeAllowed(i)

-----------------------------------------------------------------------------
(* C4 *)

\* C4: co-construction merge is idempotent: apply_annotations applied to its
\* own output with the same decisions returns that output line for line, and
\* adds no second Coconstruct= entry to any token.
C4_CocoIdempotent ==
    (script = "apply" /\ pc = "applied" /\ run = 2) =>
        /\ out = lines
        /\ \A i \in 1..Len(lines) :
               Cardinality(KeyEntries(out[i].cols.misc, "Coconstruct"))
                   = Cardinality(KeyEntries(lines[i].cols.misc, "Coconstruct"))

\* the second application ran over a line the first one had patched
C4_Witness ==
    /\ script = "apply" /\ pc = "applied" /\ run = 2
    /\ \E i \in 1..Len(lines) : \E b \in DOMAIN ann :
           /\ b \in BlockSids(lines, i)
           /\ lines[i].cols.head = "0"
           /\ InMisc(CocoFeature(ann[b]), lines[i].cols.misc)
           /\ InMisc(SpaceAfter, lines[i].cols.misc)

-----------------------------------------------------------------------------
(* C2 *)

\* C2 as stated: for any original corpus and any decision table the merger
\* accepts, compare_pair on the original and the merge output counts zero
\* unsanctioned diffs and the section status is PASS.
C2_DiffSoundAnyCorpus ==
    (script \in {"coco", "bc"} /\ pc = "checked") =>
        Unexpected(cnt) = 0 /\ SectionStatus(cnt) = "PASS"

\* the key the running merge adds
MergeKey == IF script = "coco" THEN "Coconstruct" ELSE "Backchannel"

\* no line the merge rewrote held the text of the key it adds in its MISC column
C2_FirstAnnotation ==
    \A i \in 1..Len(lines) :
        (i <= Len(file) /\ file[i] # lines[i]) => ~MiscHasText(lines[i].cols.misc, MergeKey)

\* the corpus is not the empty file (co-construction merge); it has no line of
\* white space only and, unless empty, ends with an empty line (backchannel merge)
C2_WellFormed ==
    /\ script = "coco" => lines # <<>>
    /\ script = "bc" =>
          /\ \A i \in 1..Len(lines) : lines[i].kind # "space"
          /\ lines = <<>> \/ IsEmpty(lines[Len(lines)])

\* C2 (amended): for any original corpus and any decision table the merger
\* accepts, such that no line the merge rewrites already holds the text of the
\* key it adds (Coconstruct=, Backchannel=) in MISC, and the corpus is
\* non-empty (co-construction merge), respectively free of white-space-only
\* lines and ending with an empty line (backchannel merge), compare_pair on
\* the original and the merge output counts zero unsanctioned diffs and the
\* section status is PASS.
C2_DiffSoundFirstAnnotation ==
    (script \in {"coco", "bc"} /\ pc = "checked" /\ C2_WellFormed /\ C2_FirstAnnotation) =>
        Unexpected(cnt) = 0 /\ SectionStatus(cnt) = "PASS"

\* a merge that rewrote a root holding another MISC entry was checked and passed
C2_Witness ==
    /\ script = "coco" /\ pc = "checked"
    /\ C2_WellFormed /\ C2_FirstAnnotation
    /\ cnt.added_coconstruct >= 1
    /\ \E i \in 1..Len(lines) : file[i] # lines[i] /\ InMisc(SpaceAfter, lines[i].cols.misc)

-----------------------------------------------------------------------------
(* C7 *)

\* the root token lines of the sentences named sid
RootLines(ls, sid) ==
    {i \in 1..Len(ls) : IsRootLine(ls[i]) /\ sid \in BlockSids(ls, i)}

\* C7: after apply_annotations, for every decision the root token of the
\* target sentence holds exactly one MISC entry starting with Coconstruct=,
\* and it is Coconstruct=<deprel>::<a_sent_id>::<governor_token_id> of the
\* decision, whatever MISC held before (an older Coconstruct= is replaced).
C7_SingleCoconstructKey ==
    (script = "coco" /\ pc = "applied") =>
        \A b \in DOMAIN ann : \A i \in RootLines(lines, b) :
            /\ Cardinality(KeyEntries(out[i].cols.misc, "Coconstruct")) = 1
            /\ InMisc(CocoFeature(ann[b]), out[i].cols.misc)

-----------------------------------------------------------------------------
(* C8 *)

\* a decision names a sentence id the corpus does not state, or a governor
\* token id that no token of sentence A has
C8_BadReference ==
    \E b \in DOMAIN ann :
        \/ ann[b].a_sent_id \notin CorpusSids(lines)
        \/ b \notin CorpusSids(lines)
        \/ ann[b].governor_token_id \notin TokenIds(lines, ann[b].a_sent_id)

\* C8: if a decision's a_sent_id or b_sent_id is no sentence id of the input
\* corpus, or its governor_token_id is no token id of sentence A, the run
\* raises ValueError before apply_annotations is called and before the output
\* file is created.
C8_ValidateThenApply ==
    (script = "coco" /\ C8_BadReference) =>
        /\ pc \in {"start", "aborted"}
        /\ (pc = "aborted" => err = "ValueError")
        /\ out = <<>>
        /\ file = NoFile

\* a run that aborted on a governor token id absent from an existing sentence A
C8_Witness ==
    /\ script = "coco" /\ pc = "aborted" /\ err = "ValueError" /\ file = NoFile
    /\ \E b \in DOMAIN ann :
           /\ ann[b].a_sent_id \in CorpusSids(lines)
           /\ b \in CorpusSids(lines)
           /\ ann[b].governor_token_id \notin TokenIds(lines, ann[b].a_sent_id)

-----------------------------------------------------------------------------
(* main of update-conllu/apply_backchannels_to_conllu.py, from line 90 on *)

InitBc ==
    /\ script = "bc"
    /\ pc = "start"
    /\ run = 1
    /\ rows = <<>>
    /\ ann \in BcDecisions
    /\ lines \in CorporaAnyEnd
    /\ out = <<>>
    /\ file = NoFile
    /\ err = "none"
    /\ warned = 0
    /\ cnt = NoCount
    /\ report = NoReport

\* lines 145-161: the output file is opened and the corpus streamed into it
BcRun ==
    /\ script = "bc" /\ pc = "start"
    /\ LET st == BcStream(lines, 1, BcStart, ann)
       IN  /\ out' = st.w
           /\ file' = st.w
           /\ warned' = st.missing_a_root + st.missing_b_root
    /\ pc' = "done"
    /\ UNCHANGED <<script, run, rows, ann, lines, err, cnt, report>>

NextBc == BcRun \/ Rerun \/ DiffCheck

SpecBc == InitBc /\ [][NextBc]_vars

\* either merge, followed by the diff check of its output
InitMerge == InitCoco \/ InitBc

NextMerge == CocoValidate \/ CocoApply \/ CocoWrite \/ BcRun \/ DiffCheck

SpecMerge == InitMerge /\ [][NextMerge]_vars

-----------------------------------------------------------------------------
(* main of scripts/apply_backchannel_annotations.py, from line 215 on *)

InitCsv ==
    /\ script = "csv"
    /\ pc = "start"
    /\ run = 1
    /\ rows = <<>>
    /\ ann \in Candidates
    /\ lines \in Corpora
    /\ out = <<>>
    /\ file = NoFile
    /\ err = "none"
    /\ warned = 0
    /\ cnt = NoCount
    /\ report = NoReport

\* lines 219-232: apply_annotations, then the output file is written
CsvRun ==
    /\ script = "csv" /\ pc = "start"
    /\ out' = csv_apply_annotations(lines, ann)
    /\ file' = out'
    /\ warned' = CsvMissingRoots(lines, ann)
    /\ pc' = "done"
    /\ UNCHANGED <<script, run, rows, ann, lines, err, cnt, report>>

NextCsv == CsvRun \/ Rerun \/ DiffCheck

SpecCsv == InitCsv /\ [][NextCsv]_vars

-----------------------------------------------------------------------------
(* C5 *)

\* line i of ls is the first HEAD = 0 token line of its sentence
IsFirstRoot(ls, i) ==
    /\ IsTokenLine(ls[i]) /\ ls[i].cols.head = "0"
    /\ \A j \in 1..(i - 1) :
           (IsTokenLine(ls[j]) /\ ls[j].cols.head = "0") => ~SameBlock(ls, i, j)

\* the first HEAD = 0 token lines of the sentences named sid that lie in the
\* sentence of line i or before it
RootsSeenBy(ls, sid, i) ==
    {j \in 1..Len(ls) :
        /\ IsFirstRoot(ls, j) /\ sid \in BlockSids(ls, j)
        /\ (j < i \/ SameBlock(ls, i, j))}

\* the root token lines the backchannel merge patches: the root of an accepted
\* B whose A has a root at or before B
BcTargets(ls) ==
    {i \in 1..Len(ls) :
        /\ IsFirstRoot(ls, i)
        /\ \E b \in DOMAIN ann : b \in BlockSids(ls, i) /\ RootsSeenBy(ls, ann[b], i) # {}}

\* C5: the reviewed-decision backchannel merge is idempotent: run on its own
\* output with the same accepted decisions it writes identical output, and
\* after any number of runs the patched B root token holds exactly one MISC
\* entry starting with Backchannel=.
C5_BcIdempotent ==
    (script = "bc" /\ pc = "done") =>
        /\ run = 2 => file = lines
        /\ \A i \in BcTargets(file) :
               Cardinality(KeyEntries(file[i].cols.misc, "Backchannel")) = 1

\* the second run went over a root that held another MISC entry and, before
\* the first run, an older Backchannel= entry or none
C5_Witness ==
    /\ script = "bc" /\ pc = "done" /\ run = 2
    /\ \E i \in BcTargets(file) :
           /\ InMisc(SpaceAfter, file[i].cols.misc)
           /\ ~InMisc(BcOld, file[i].cols.misc)

-----------------------------------------------------------------------------
(* C6 *)

\* C6: the candidate-CSV backchannel merge is idempotent: apply_annotations
\* with the same candidates on its own output yields identical lines, and no
\* token carries two Backchannel= entries after the second run.
C6_CsvIdempotent ==
    (script = "csv" /\ pc = "done" /\ run = 2) =>
        /\ file = lines
        /\ \A i \in 1..Len(file) :
               Cardinality(KeyEntries(file[i].cols.misc, "Backchannel"))
                   = Cardinality(KeyEntries(lines[i].cols.misc, "Backchannel"))

-----------------------------------------------------------------------------
(* C9 *)

\* an accepted backchannel decision names a B or an A the corpus does not
\* state, or an A that has no root at or before B
C9_BadReference ==
    \E b \in DOMAIN ann :
        \/ b \notin CorpusSids(lines)
        \/ ann[b] \notin CorpusSids(lines)
        \/ \E i \in 1..Len(lines) :
               /\ IsSidLine(lines[i]) /\ lines[i].sid = b
               /\ RootsSeenBy(lines, ann[b], i) = {}

\* C9: if an accepted backchannel decision names an A_sent_id or B_sent_id that
\* does not occur in the corpus (or an A that does not occur before B is
\* processed), the merge aborts with an error and writes no output file; it
\* never completes with the decision silently skipped.
C9_BcReferentialIntegrity ==
    (script = "bc" /\ C9_BadReference) => (pc # "done" /\ file = NoFile)

-----------------------------------------------------------------------------
(* load_coconstructions on any review sheet of at most MaxRows rows *)

SheetRows ==
    [is_coconstruction : {"yes", "no"}, a_sent_id : SentIds, b_sent_id : SentIds,
     coconstruct_deprel : Deprels \cup {""}, governor_token_id : {"1", "1.0", "2"}]

Sheets == UNION {[1..n -> SheetRows] : n \in 0..MaxRows}

InitLoad ==
    /\ script = "load"
    /\ pc = "start"
    /\ run = 1
    /\ rows \in Sheets
    /\ ann = EmptyDict
    /\ lines = <<>>
    /\ out = <<>>
    /\ file = NoFile
    /\ err = "none"
    /\ warned = 0
    /\ cnt = NoCount
    /\ report = NoReport

\* main, line 233: ann = load_coconstructions(ann_path)
Load ==
    /\ script = "load" /\ pc = "start"
    /\ LET r == load_coconstructions(rows)
       IN  /\ err' = r.error
           /\ ann' = IF r.error = "none" THEN r.ann ELSE ann
           /\ pc' = IF r.error = "none" THEN "loaded" ELSE "aborted"
    /\ UNCHANGED <<script, run, rows, lines, out, file, warned, cnt, report>>

NextLoad == Load

SpecLoad == InitLoad /\ [][NextLoad]_vars

-----------------------------------------------------------------------------
(* compare_pair on a corpus and a copy with one token line altered *)

ColumnValues(col) ==
    CASE col = "id" -> {"1", "2", "3", "1-2"}
      [] col = "form" -> {"w", "x"}
      [] col = "head" -> {"0", "1", "2", "_"}
      [] OTHER -> {"root", "dep", "discourse", "_"}

WithColumn(line, col, val) ==
    CASE col = "id" -> [line EXCEPT !.cols.id = val]
      [] col = "form" -> [line EXCEPT !.cols.form = val]
      [] col = "head" -> [line EXCEPT !.cols.head = val]
      [] OTHER -> [line EXCEPT !.cols.deprel = val]

\* the MISC texts the altered line may have: unchanged, or with a recognized key added
MiscAfter(misc) ==
    {misc,
     add_backchannel_to_misc(misc, BcFeature("s1", "1")),
     CocoMisc(misc, CocoFeature(CocoRow("s1", "s2", "d1", 1)))}

InitDiff ==
    /\ script = "diff"
    /\ pc = "start"
    /\ run = 1
    /\ rows = <<>>
    /\ ann = EmptyDict
    /\ lines \in DiffCorpora
    /\ out = <<>>
    /\ file = NoFile
    /\ err = "none"
    /\ warned = 0
    /\ cnt = NoCount
    /\ report = NoReport

\* the second file: the corpus with one of the first nine columns of one
\* 10-column line given another value, and possibly a recognized key added
Mutate ==
    /\ script = "diff" /\ pc = "start"
    /\ \E i \in 1..Len(lines) : \E col \in {"id", "form", "head", "deprel"} :
         \E val \in ColumnValues(col) : \E m \in MiscAfter(lines[i].cols.misc) :
           /\ HasTenCols(lines[i])
           /\ WithColumn(lines[i], col, val) # lines[i]
           /\ file' = [lines EXCEPT ![i] = WithMisc(WithColumn(@, col, val), m)]
    /\ pc' = "done"
    /\ UNCHANGED <<script, run, rows, ann, lines, out, err, warned, cnt, report>>

NextDiff == Mutate \/ DiffCheck

SpecDiff == InitDiff /\ [][NextDiff]_vars

-----------------------------------------------------------------------------
(* C3 *)

\* C3: when the second file differs from the corpus in one of the first nine
\* columns of one 10-column token line (same number of lines), compare_pair
\* counts token_cols_0_8_changed >= 1 and the section status is FAIL, even if
\* that line also gained a Backchannel= or Coconstruct= key.
C3_ColumnChangeFails ==
    (script = "diff" /\ pc = "checked") =>
        /\ cnt.token_cols_0_8_changed >= 1
        /\ Unexpected(cnt) >= 1
        /\ SectionStatus(cnt) = "FAIL"

\* a checked pair whose altered line also gained a recognized key
C3_Witness ==
    /\ script = "diff" /\ pc = "checked"
    /\ \E i \in 1..Len(lines) :
           /\ ~SameFirstNine(lines[i], file[i])
           /\ AddedKey(lines[i], file[i], "Backchannel")
    /\ SectionStatus(cnt) = "FAIL"

-----------------------------------------------------------------------------
(* C10 *)

\* the rows of the sheet that load_coconstructions accepts
AcceptedRows == {i \in 1..Len(rows) : ~RowFiltered(rows[i]) /\ ~RowIncomplete(rows[i])}

\* two accepted rows for the same b_sent_id that differ in a_sent_id,
\* coconstruct_deprel or the governor token id they denote
C10_Conflict ==
    \E i \in AcceptedRows : \E j \in AcceptedRows :
        /\ rows[i].b_sent_id = rows[j].b_sent_id
        /\ \/ rows[i].a_sent_id # rows[j].a_sent_id
           \/ rows[i].coconstruct_deprel # rows[j].coconstruct_deprel
           \/ GovInt(rows[i].governor_token_id) # GovInt(rows[j].governor_token_id)

\* C10: load_coconstructions raises ValueError whenever two accepted rows have
\* the same b_sent_id but differ in a_sent_id, coconstruct_deprel or
\* governor_token_id, whatever the row order; rows that agree exactly yield a
\* single decision and no error.
C10_ConflictingDuplicatesFatal ==
    (script = "load" /\ pc # "start") =>
        /\ C10_Conflict => (pc = "aborted" /\ err = "ValueError" /\ ann = EmptyDict)
        /\ ~C10_Conflict =>
              /\ pc = "loaded" /\ err = "none"
              /\ DOMAIN ann = {rows[i].b_sent_id : i \in AcceptedRows}
              /\ \A i \in AcceptedRows : ann[rows[i].b_sent_id] = RowOf(rows[i])

\* a sheet whose second accepted row for a b_sent_id differs only in the
\* governor token id was refused
C10_Witness ==
    /\ script = "load" /\ pc = "aborted" /\ err = "ValueError"
    /\ Len(rows) >= 2
    /\ rows[1].b_sent_id = rows[2].b_sent_id
    /\ rows[1].a_sent_id = rows[2].a_sent_id
    /\ rows[1].coconstruct_deprel = rows[2].coconstruct_deprel
    /\ GovInt(rows[1].governor_token_id) # GovInt(rows[2].governor_token_id)

-----------------------------------------------------------------------------
(* C11 *)

\* the sid lines of the corpus that state sentence id sid
SidLinesOf(ls, sid) == {n \in 1..Len(ls) : IsSidLine(ls[n]) /\ ls[n].sid = sid}

\* a decision whose target sentence B, stated once in the corpus, has zero or
\* more than one token with head = 0 or deprel = "root"
C11_RootNotUnique ==
    \E b \in DOMAIN ann :
        /\ Cardinality(SidLinesOf(lines, b)) = 1
        /\ Cardinality(RootLines(lines, b)) # 1

\* every decision names sentences stated once, a governor token of A, and a
\* target B with exactly one root
C11_AllValid ==
    \A b \in DOMAIN ann :
        /\ Cardinality(SidLinesOf(lines, b)) = 1
        /\ Cardinality(SidLinesOf(lines, ann[b].a_sent_id)) = 1
        /\ ann[b].governor_token_id \in TokenIds(lines, ann[b].a_sent_id)
        /\ Cardinality(RootLines(lines, b)) = 1

\* C11: validate_references raises ValueError for a decision whose target
\* sentence B has zero, or two or more, tokens with head = 0 or deprel = "root",
\* before apply_annotations runs and before any output is written; decisions
\* that are valid and whose B has exactly one such token are not rejected.
C11_RootUniquenessCoco ==
    /\ (script = "coco" /\ C11_RootNotUnique) =>
          /\ pc \in {"start", "aborted"}
          /\ (pc = "aborted" => err = "ValueError")
          /\ out = <<>>
          /\ file = NoFile
    /\ (script = "coco" /\ C11_AllValid) => pc # "aborted"

\* a run aborted on a decision whose references exist but whose B has two roots
C11_Witness ==
    /\ script = "coco" /\ pc = "aborted" /\ err = "ValueError" /\ file = NoFile
    /\ \E b \in DOMAIN ann :
           /\ Cardinality(SidLinesOf(lines, b)) = 1
           /\ Cardinality(SidLinesOf(lines, ann[b].a_sent_id)) = 1
           /\ ann[b].governor_token_id \in TokenIds(lines, ann[b].a_sent_id)
           /\ Cardinality(RootLines(lines, b)) = 2

-----------------------------------------------------------------------------
(* C12 *)

\* the token lines with HEAD = 0 of the sentences named sid
HeadZeroLines(ls, sid) ==
    {i \in 1..Len(ls) :
        IsTokenLine(ls[i]) /\ ls[i].cols.head = "0" /\ sid \in BlockSids(ls, i)}

\* an accepted decision between two sentences of the corpus where A or B has
\* more than one head = 0 token, or B has none
C12_RootNotUnique ==
    \E b \in DOMAIN ann :
        /\ b \in CorpusSids(lines) /\ ann[b] \in CorpusSids(lines)
        /\ \/ Cardinality(HeadZeroLines(lines, b)) # 1
           \/ Cardinality(HeadZeroLines(lines, ann[b])) > 1

\* C12: when a sentence of an accepted backchannel decision has more than one
\* token with head = 0, or the target B has none, the backchannel merger
\* raises an error: it does not run to completion using the first such token
\* or skipping the decision.
C12_BcRootUniqueness ==
    (script = "bc" /\ run = 1 /\ C12_RootNotUnique) =>
        (pc = "done" => err # "none")

-----------------------------------------------------------------------------
(* C13 *)

\* every blank line is empty and the last sentence is followed by a blank line
C13_WellFormed ==
    /\ \A i \in 1..Len(lines) : lines[i].kind # "space"
    /\ lines = <<>> \/ IsEmpty(lines[Len(lines)])

\* C13: for any well-formed input, a run of the co-construction merge or of the
\* backchannel merge with no accepted decision writes an output file whose
\* line sequence is the input's.
C13_RoundTrip ==
    (script \in {"coco", "bc"} /\ pc = "done" /\ run = 1
        /\ DOMAIN ann = {} /\ C13_WellFormed) => file = lines

-----------------------------------------------------------------------------
(* compare_pair on a corpus and a copy with the MISC of one token line altered *)

\* the MISC texts the altered line may have
MiscTexts ==
    LET bc == BcFeature("s1", "1")
        co == CocoFeature(CocoRow("s1", "s2", "d1", 1))
    IN  { <<Underscore>>, <<SpaceAfter>>, <<bc>>, <<co>>, <<bc, co>>,
          <<SpaceAfter, bc>>, <<SpaceAfter, co>>, <<bc, SpaceAfter>>,
          <<SpaceAfter, bc, co>>, <<BcOld, SpaceAfter, CocoOld>>,
          <<BcOld, SpaceAfter, CocoOld, co>>, <<BcOld, CocoOld>>,
          <<bc, SpaceAfter, CocoOld>>, <<BcOld, SpaceAfter>> }

InitMisc ==
    /\ script = "misc"
    /\ pc = "start"
    /\ run = 1
    /\ rows = <<>>
    /\ ann = EmptyDict
    /\ lines \in DiffCorpora
    /\ out = <<>>
    /\ file = NoFile
    /\ err = "none"
    /\ warned = 0
    /\ cnt = NoCount
    /\ report = NoReport

\* the second file: the corpus with column 10 of one 10-column line given
\* another text, columns 1-9 and every other line as they were
MutateMisc ==
    /\ script = "misc" /\ pc = "start"
    /\ \E i \in 1..Len(lines) : \E m \in MiscTexts :
           /\ HasTenCols(lines[i])
           /\ m # lines[i].cols.misc
           /\ file' = [lines EXCEPT ![i] = WithMisc(@, m)]
    /\ pc' = "done"
    /\ UNCHANGED <<script, run, rows, ann, lines, out, err, warned, cnt, report>>

NextMisc == MutateMisc \/ DiffCheck

SpecMisc == InitMisc /\ [][NextMisc]_vars

-----------------------------------------------------------------------------
(* C14 *)

RecognizedKeys == {"Backchannel", "Coconstruct"}

\* MISC text n is MISC text m with entries of recognized keys that m does not
\* hold added, and nothing else changed
C14_OnlyAdds(m, n) ==
    LET absent == {key \in RecognizedKeys : ~MiscHasText(m, key)}
        Old(e) == e.k \notin absent
    IN  /\ n # m
        /\ SelectSeq(n, Old) = IF m = <<Underscore>> THEN <<>> ELSE m

\* C14: when the two files differ in the MISC column of one token line only,
\* the difference is counted as sanctioned (no misc_other_change, status PASS)
\* exactly when the output MISC is the input MISC plus recognized keys absent
\* in the input; a line that gains a recognized key while another entry is
\* removed or altered is counted as misc_other_change and the status is FAIL.
C14_SanctionedAddition ==
    (script = "misc" /\ pc = "checked") =>
        \A i \in 1..Len(lines) :
            lines[i] # file[i] =>
                /\ C14_OnlyAdds(lines[i].cols.misc, file[i].cols.misc)
                      <=> cnt.misc_other_change = 0
                /\ cnt.misc_other_change = 0 <=> SectionStatus(cnt) = "PASS"

-----------------------------------------------------------------------------
(* main of 07_diffcheck_final_vs_src.py: the four sections and the overall status *)

\* pairs = [("merged", ...), ("train", ...), ("dev", ...), ("test", ...)]
SectionNames == <<"merged", "train", "dev", "test">>

\* the source file of a section
SectionSrc ==
    <<SidLine("s1"), ShortLine, Root("1", <<SpaceAfter>>), BlankLine>>

\* the final files a section may have: the source itself, or the source with
\* a recognized key added, a MISC entry altered, a HEAD altered, the short
\* line altered, the sent_id altered, or the last line missing
SectionFinals ==
    { SectionSrc,
      [SectionSrc EXCEPT ![3] = WithMisc(@, <<SpaceAfter, BcFeature("s1", "1")>>)],
      [SectionSrc EXCEPT ![3] = WithMisc(@, <<Underscore>>)],
      [SectionSrc EXCEPT ![3] = WithColumn(@, "head", "1")],
      [SectionSrc EXCEPT ![2] = Root("1", <<SpaceAfter>>)],
      [SectionSrc EXCEPT ![1] = SidLine("s2")],
      Front(SectionSrc) }

InitVerdict ==
    /\ script = "verdict"
    /\ pc = "start"
    /\ run = 1
    /\ rows = <<>>
    /\ ann = EmptyDict
    /\ lines = SectionSrc
    /\ out = <<>>
    /\ file = NoFile
    /\ err = "none"
    /\ warned = 0
    /\ cnt = NoCount
    /\ report = NoReport

\* lines 99-110: one pass of the loop over the pairs
VerdictSection ==
    /\ script = "verdict" /\ pc = "start" /\ Len(report.sections) < Len(SectionNames)
    /\ \E o \in SectionFinals :
         LET c == compare_pair(lines, o)
             ok == Unexpected(c) = 0
         IN  /\ file' = o
             /\ cnt' = c
             /\ report' =
                  [report EXCEPT
                     !.overall_ok = report.overall_ok /\ ok,
                     !.sections = Append(@,
                         [name |-> SectionNames[Len(report.sections) + 1],
                          cnt |-> c,
                          status |-> SectionStatus(c)])]
    /\ UNCHANGED <<script, pc, run, rows, ann, lines, out, err, warned>>

\* line 137: the overall status is put at the head of the report
VerdictReport ==
    /\ script = "verdict" /\ pc = "start" /\ Len(report.sections) = Len(SectionNames)
    /\ report' = [report EXCEPT !.overall = IF report.overall_ok THEN "PASS" ELSE "FAIL"]
    /\ pc' = "reported"
    /\ UNCHANGED <<script, run, rows, ann, lines, out, file, err, warned, cnt>>

NextVerdict == VerdictSection \/ VerdictReport

SpecVerdict == InitVerdict /\ [][NextVerdict]_vars

-----------------------------------------------------------------------------
(* C15 *)

\* the sum of the six unsanctioned counters of a section
C15_Unsanctioned(c) ==
    c.sent_id_sequence_mismatch + c.line_count_mismatch + c.meta_or_blank_changed
    + c.non_10col_token_changed + c.token_cols_0_8_changed + c.misc_other_change

\* C15: in the report, a section's status is PASS exactly when the sum of its
\* six unsanctioned counters is zero, and the overall status is PASS exactly
\* when all four sections (merged, train, dev, test) are PASS.
C15_VerdictRule ==
    (script = "verdict") =>
        /\ \A k \in 1..Len(report.sections) :
              report.sections[k].status = "PASS"
                  <=> C15_Unsanctioned(report.sections[k].cnt) = 0
        /\ pc = "reported" =>
              /\ Len(report.sections) = 4
              /\ report.overall \in {"PASS", "FAIL"}
              /\ report.overall = "PASS"
                    <=> \A k \in 1..4 : report.sections[k].status = "PASS"

\* a report whose only unsanctioned diff is one altered MISC entry of the
\* last section, and whose overall status is FAIL
C15_Witness ==
    /\ script = "verdict" /\ pc = "reported" /\ report.overall = "FAIL"
    /\ \A k \in 1..3 : report.sections[k].status = "PASS"
    /\ C15_Unsanctioned(report.sections[4].cnt) = 1
    /\ report.sections[4].cnt.misc_other_change = 1

-----------------------------------------------------------------------------
(* C16 *)

\* C16: the candidate-CSV backchannel merge changes only token lines with
\* HEAD = 0 (the root of an annotated sentence B), wherever the root stands in
\* B and whether or not B starts with a multiword-range line; every line it
\* changes gains a Backchannel= entry and keeps its columns 1-9.
C16_CsvKeyOnRoot ==
    (script = "csv" /\ pc = "done" /\ run = 1) =>
        /\ Len(out) = Len(lines)
        /\ \A i \in 1..Len(lines) :
              out[i] # lines[i] =>
                  /\ IsTokenLine(lines[i])
                  /\ lines[i].cols.head = "0"
                  /\ SameFirstNine(lines[i], out[i])
                  /\ MiscHasText(out[i].cols.misc, "Backchannel")

-----------------------------------------------------------------------------
(* The candidate extractors: scripts/extract_backchannels_high_recall.py,   *)
(* scripts/extract_backchannels_new.py and                                  *)
(* scripts/extract_coconstruction_candidates.py.                            *)
(*                                                                          *)
(* The three scripts read the corpus with the same parse_conllu (the copies *)
(* differ in layout only).  A comment line of kind "comment" holds no "=",  *)
(* a line of kind "short" has fewer than 8 columns, and a token id is a     *)
(* digit string, a range ("1-2") or a decimal ("1.1").                      *)

\* texts of the "# text = ..." comments the model uses
TextPlain == "in potem smo sli domov"
TextAsk   == "a res?"
TextGreet == "dober dan"

\* "?" in text
HasQuestionMark(text) == text = TextAsk

\* text.endswith("?")
EndsWithQuestionMark(text) == text = TextAsk

\* PUNCT_RE.match(form.strip()): the form is made of non-word characters
PunctForm(form) == form \in {".", ",", "?", "!"}

\* s.strip().lower()
norm_form(s) == CASE s = "Mhm" -> "mhm" [] s = "Ja" -> "ja" [] OTHER -> s

\* the part of DEFAULT_SEED_LEXICON among the forms the model uses
DEFAULT_SEED_LEXICON == {"mhm", "ja", "redu", "razumem", "kaj"}

\* the part of GREETING_PHRASES among the texts the model uses
GREETING_PHRASES == {"dober dan"}

\* Token(tid, form, upos, head, deprel, misc) of a token line
TokenOf(line) ==
    [tid |-> StrInt(line.cols.id), form |-> line.cols.form, upos |-> line.cols.upos,
     head |-> IF IsDigit(line.cols.head) THEN StrInt(line.cols.head) ELSE NoHead,
     deprel |-> line.cols.deprel, misc |-> line.cols.misc]

\* meta == {}: no "key = value" comment read since the last flush
NoMeta == [any |-> FALSE, newdoc |-> None, sent_id |-> "", speaker_id |-> "", text |-> ""]

\* the locals of parse_conllu before the first line
ParseStart == [sents |-> <<>>, meta |-> NoMeta, tokens |-> <<>>, current_doc |-> ""]

\* flush() of parse_conllu
flush(st) ==
    IF ~st.meta.any /\ st.tokens = <<>> THEN st
    ELSE LET doc == IF st.meta.newdoc # None THEN st.meta.newdoc ELSE st.current_doc
         IN [sents |-> Append(st.sents,
                         [doc |-> doc, sent_id |-> st.meta.sent_id,
                          speaker |-> st.meta.speaker_id, text |-> st.meta.text,
                          tokens |-> st.tokens]),
             meta |-> NoMeta, tokens |-> <<>>, current_doc |-> doc]

\* the body of the loop over the lines of the file
ParseLine(st, line) ==
    IF IsEmpty(line) THEN flush(st)
    ELSE IF StartsHash(line) THEN
        CASE line.kind = "sid" ->
                [st EXCEPT !.meta.any = TRUE, !.meta.sent_id = line.sid]
          [] line.kind = "newdoc" ->
                [st EXCEPT !.meta.any = TRUE, !.meta.newdoc = line.sid]
          [] line.kind = "speaker" ->
                [st EXCEPT !.meta.any = TRUE, !.meta.speaker_id = line.sid]
          [] line.kind = "text" ->
                [st EXCEPT !.meta.any = TRUE, !.meta.text = line.sid]
          [] OTHER -> st
    ELSE IF line.kind # "tok" THEN st
    ELSE IF HasRangeOrDecimal(line.cols.id) THEN st
    ELSE IF ~IsDigit(line.cols.id) THEN st
    ELSE [st EXCEPT !.tokens = Append(@, TokenOf(line))]

\* the loop over the lines; the state is evaluated line by line
RECURSIVE ParseFrom(_, _, _)
ParseFrom(ls, i, st) ==
    IF i > Len(ls) \/ DOMAIN st = {} THEN st
    ELSE ParseFrom(ls, i + 1, ParseLine(st, ls[i]))

\* parse_conllu(path): the list of Sent of the file
parse_conllu(ls) == flush(ParseFrom(ls, 1, ParseStart)).sents

-----------------------------------------------------------------------------
(* scripts/extract_backchannels_high_recall.py *)

\* the defaults of --min_lex_hits, --window and --end_k
MinLexHits == 1
Window == 5
EndK == 2

is_punct(tok) == tok.upos = "PUNCT" \/ PunctForm(tok.form)

nonpunct_tokens(sent) == SelectSeq(sent.tokens, LAMBDA t : ~is_punct(t))

\* None of Optional[int]
NoTid == -1

RECURSIVE FirstRootFrom(_, _)
FirstRootFrom(toks, i) ==
    IF i > Len(toks) THEN NoTid
    ELSE IF toks[i].head = 0 THEN toks[i].tid
    ELSE FirstRootFrom(toks, i + 1)

\* faulty variant: the root is looked for by deprel == "root"
sent_root_id_ByDeprel(sent) ==
    IF \E i \in 1..Len(sent.tokens) : sent.tokens[i].deprel = "root"
    THEN sent.tokens[CHOOSE i \in 1..Len(sent.tokens) :
                        sent.tokens[i].deprel = "root"].tid
    ELSE NoTid

\* the tid of the first token with head == 0
sent_root_id(sent) == FirstRootFrom(sent.tokens, 1)

\* (hits, len(forms)) of count_lexicon_hits
count_lexicon_hits(sent, lex) ==
    LET toks == nonpunct_tokens(sent)
    IN [hits |-> Cardinality({i \in 1..Len(toks) : norm_form(toks[i].form) \in lex}),
        n_tok |-> Len(toks)]

is_question_like(text) == HasQuestionMark(text)

has_discourse_like_deprel(sent) ==
    \E i \in 1..Len(sent.tokens) :
        sent.tokens[i].deprel \in {"discourse", "discourse:filler"}

\* the texts of the model hold a greeting only as their whole
is_greeting_phrase(text) == norm_form(text) \in GREETING_PHRASES

looks_like_backchannel(sent, lex) ==
    LET toks == nonpunct_tokens(sent)
    IN IF Len(toks) = 0 \/ Len(toks) > 3 THEN FALSE
       ELSE \A i \in 1..Len(toks) : norm_form(toks[i].form) \in lex

has_content_structure(sent) ==
    LET toks == nonpunct_tokens(sent)
        has_verb == \E i \in 1..Len(toks) : toks[i].upos = "VERB"
    IN IF \E i \in 1..Len(toks) :
              toks[i].upos \in {"NOUN", "PROPN", "ADJ"} /\ Len(toks) > 2
       THEN TRUE
       ELSE IF has_verb THEN TRUE
       ELSE Len(toks) > 3

is_question_requiring_answer(sent) ==
    LET toks == nonpunct_tokens(sent)
    IN IF ~EndsWithQuestionMark(sent.text) THEN FALSE
       ELSE IF /\ Len(toks) = 1
               /\ norm_form(toks[1].form) \in {"ne", "ja"} THEN FALSE
       ELSE Len(toks) > 2

RECURSIVE NextSameFrom(_, _, _, _)
NextSameFrom(sents, i, j, last) ==
    IF j > last THEN 0
    ELSE IF sents[j].doc # sents[i].doc THEN 0
    ELSE IF sents[j].speaker = sents[i].speaker THEN j
    ELSE NextSameFrom(sents, i, j + 1, last)

Min2(a, b) == IF a < b THEN a ELSE b

\* the next index after i, at most window further, whose sentence has the
\* speaker of sents[i], searched up to the first change of doc; 0 for None
find_next_same_speaker(sents, i, window) ==
    NextSameFrom(sents, i, i + 1, Min2(Len(sents), i + window))

RECURSIVE LastOfDoc(_, _, _)
LastOfDoc(sents, i, j) ==
    IF j + 1 <= Len(sents) /\ sents[j + 1].doc = sents[i].doc
    THEN LastOfDoc(sents, i, j + 1) ELSE j

is_near_end_of_doc(sents, i, k_end) == (LastOfDoc(sents, i, i) - i) <= k_end

\* faulty variant: the score is not clamped to 0..100
compute_numeric_confidence_NoClamp(confidence, n_tok, warning_count, has_immediate_aba, has_windowed_aba, is_answer_like) ==
    (IF has_immediate_aba THEN 85 ELSE IF has_windowed_aba THEN 70 ELSE 35)
    + (CASE n_tok = 1 -> 10 [] n_tok = 2 -> 5 [] n_tok = 3 -> 0
         [] n_tok = 4 -> -15 [] n_tok = 5 -> -25 [] OTHER -> -50)
    - warning_count * 15 - (IF is_answer_like THEN 40 ELSE 0)

\* the argument confidence is not read by the function
compute_numeric_confidence(confidence, n_tok, warning_count, has_immediate_aba, has_windowed_aba, is_answer_like) ==
    LET base_score == IF has_immediate_aba THEN 85
                      ELSE IF has_windowed_aba THEN 70 ELSE 35
        length_bonus == CASE n_tok = 1 -> 10 [] n_tok = 2 -> 5 [] n_tok = 3 -> 0
                          [] n_tok = 4 -> -15 [] n_tok = 5 -> -25 [] OTHER -> -50
        warning_penalty == warning_count * 15
        answer_penalty == IF is_answer_like THEN 40 ELSE 0
        score == base_score + length_bonus - warning_penalty - answer_penalty
    IN Max(0, Min2(100, score))

\* faulty variant: the test A.doc != B.doc is left out
hr_pair_ok_AnyDoc(A, B) ==
    /\ A.sent_id # "" /\ B.sent_id # ""
    /\ A.speaker # "" /\ B.speaker # ""
    /\ A.speaker # B.speaker

\* the tests of main that skip the pair (sents[i-1], sents[i]) before B is
\* looked at: lines 399-409
hr_pair_ok(A, B) ==
    /\ A.doc = B.doc
    /\ A.sent_id # "" /\ B.sent_id # ""
    /\ A.speaker # "" /\ B.speaker # ""
    /\ A.speaker # B.speaker

\* the number of flags that are set
CountTrue(flags) == Cardinality({k \in 1..Len(flags) : flags[k]})

\* faulty variant: one warning sets the confidence to MEDIUM
Downgrade_OneWarningMedium(base_confidence, B_after_question, n_tok, warning_count) ==
    LET c1 == IF B_after_question /\ base_confidence = "HIGH"
              THEN "MEDIUM" ELSE base_confidence
        c2 == IF n_tok >= 6 THEN "LOW"
              ELSE IF n_tok > 3 /\ c1 = "HIGH" THEN "MEDIUM" ELSE c1
    IN IF warning_count >= 2 THEN "LOW"
       ELSE IF warning_count = 1 THEN "MEDIUM"
       ELSE c2

\* the confidence after the question, length and warning rules: lines 477-499
Downgrade(base_confidence, B_after_question, n_tok, warning_count) ==
    LET c1 == IF B_after_question /\ base_confidence = "HIGH"
              THEN "MEDIUM" ELSE base_confidence
        c2 == IF n_tok >= 6 THEN "LOW"
              ELSE IF n_tok > 3 /\ c1 = "HIGH" THEN "MEDIUM" ELSE c1
    IN IF warning_count >= 2 THEN "LOW"
       ELSE IF warning_count = 1 /\ c2 = "HIGH" THEN "MEDIUM"
       ELSE c2

\* faulty variant: the id of the last token that is no punctuation
ProposedRoot_LastToken(A) ==
    LET toks == nonpunct_tokens(A)
    IN IF toks # <<>> THEN <<A.sent_id, IntStr(toks[Len(toks)].tid)>> ELSE <<>>

\* f"{A.sent_id}::{A_root}", as the "::"-separated parts; <<>> for ""
ProposedRoot(A) ==
    IF sent_root_id(A) # NoTid THEN <<A.sent_id, IntStr(sent_root_id(A))>> ELSE <<>>

\* no row: the pair is skipped
NoCandidate == [B_sent_id |-> None]

\* one pass of the loop of main for the index i of B (i >= 2 here, i >= 1 in
\* the script): the row of the pair, or NoCandidate when a continue is taken.
\* The columns of the row that repeat the texts and the sound urls, B_tokens
\* and proposed_attach_last_content are left out.
HrCandidate(sents, i, lex) ==
    LET A == sents[i - 1]
        B == sents[i]
        cnt_B == count_lexicon_hits(B, lex)
        n_tok == cnt_B.n_tok
        A_is_backchannel_like == looks_like_backchannel(A, lex)
        B_has_content == has_content_structure(B)
        B_is_multi_token_q == is_question_requiring_answer(B)
        B_after_question == is_question_like(A.text)
        has_immediate_aba ==
            /\ i + 1 <= Len(sents)
            /\ sents[i + 1].doc = B.doc
            /\ sents[i + 1].speaker = A.speaker
        j == find_next_same_speaker(sents, i - 1, Window)
        has_windowed_aba == j # 0 /\ j > i /\ ~has_immediate_aba
        at_end == is_near_end_of_doc(sents, i, EndK)
        base_confidence == IF has_immediate_aba THEN "HIGH"
                           ELSE IF has_windowed_aba THEN "MEDIUM" ELSE "LOW"
        why_parts ==
            (IF has_immediate_aba THEN <<"A continues immediately after B">> ELSE <<>>)
            \o (IF has_windowed_aba THEN <<"A continues within window turns">> ELSE <<>>)
            \o (IF at_end THEN <<"Near end of conversation">> ELSE <<>>)
        warning_count == CountTrue(<<B_has_content, B_is_multi_token_q,
                                     B_after_question, A_is_backchannel_like>>)
        confidence == Downgrade(base_confidence, B_after_question, n_tok, warning_count)
    IN IF ~hr_pair_ok(A, B) THEN NoCandidate
       ELSE IF n_tok = 0 THEN NoCandidate
       ELSE IF cnt_B.hits < MinLexHits THEN NoCandidate
       ELSE IF is_greeting_phrase(B.text) THEN NoCandidate
       ELSE IF A_is_backchannel_like /\ n_tok > 4 THEN NoCandidate
       ELSE IF why_parts = <<>> THEN NoCandidate
       ELSE [doc |-> B.doc,
             confidence |-> confidence,
             confidence_score |->
                 compute_numeric_confidence(confidence, n_tok, warning_count,
                     has_immediate_aba, has_windowed_aba,
                     B_after_question /\ B_has_content),
             A_sent_id |-> A.sent_id, A_speaker |-> A.speaker,
             B_sent_id |-> B.sent_id, B_speaker |-> B.speaker,
             B_token_count |-> n_tok,
             why_candidate |->
                 <<why_parts \o (IF has_discourse_like_deprel(B)
                                 THEN <<"has discourse relation">> ELSE <<>>)>>,
             A_looks_like_backchannel |-> A_is_backchannel_like,
             B_has_content |-> B_has_content,
             B_is_question |-> B_is_multi_token_q,
             B_after_question |-> B_after_question,
             proposed_attach_root |-> ProposedRoot(A)]

\* a in b for two "; "-joined lists of reasons, none a part of another
IsInfix(a, b) ==
    \E o \in 0..(Len(b) - Len(a)) : SubSeq(b, o + 1, o + Len(a)) = a

\* rows_by_b after the row of one more pair: a second row of the same
\* B_sent_id only raises the confidence of the first and extends its reasons
HrAddRow(rs, row) ==
    IF row = NoCandidate THEN rs
    ELSE IF \E k \in 1..Len(rs) : rs[k].B_sent_id = row.B_sent_id
    THEN [k \in 1..Len(rs) |->
            IF rs[k].B_sent_id # row.B_sent_id THEN rs[k]
            ELSE [rs[k] EXCEPT
                    !.confidence =
                        IF row.confidence = "HIGH" THEN "HIGH"
                        ELSE IF row.confidence = "MEDIUM" /\ @ = "LOW" THEN "MEDIUM"
                        ELSE @,
                    !.why_candidate =
                        IF \E m \in 1..Len(@) : IsInfix(row.why_candidate[1], @[m])
                        THEN @ ELSE @ \o row.why_candidate]]
    ELSE Append(rs, row)

RECURSIVE HrRowsFrom(_, _, _, _)
HrRowsFrom(sents, i, lex, rs) ==
    IF i > Len(sents) THEN rs
    ELSE HrRowsFrom(sents, i + 1, lex, HrAddRow(rs, HrCandidate(sents, i, lex)))

\* the rows written to the candidate CSV, in the order of rows_by_b
HrRows(ls) == HrRowsFrom(parse_conllu(ls), 2, DEFAULT_SEED_LEXICON, <<>>)

-----------------------------------------------------------------------------
(* scripts/extract_backchannels_new.py *)

\* the words and categories load_lexicon_from_file returns for the lexicon
\* file of the model: "ja|response", "mhm|response", "redu|response",
\* "razumem|response", "v|multiword_starter"
NewLexicon == {"ja", "mhm", "redu", "razumem", "v"}

\* categories.get(form_lower, 'unspecified')
CategoryOf(form_lower) ==
    IF form_lower = "v" THEN "multiword_starter"
    ELSE IF form_lower \in NewLexicon THEN "response" ELSE "unspecified"

\* is_punct of this script: the UPOS alone decides
new_is_punct(tok) == tok.upos = "PUNCT"

\* [t for t in sent.tokens if not is_punct(t)]
new_nonpunct(sent) == SelectSeq(sent.tokens, LAMBDA t : ~new_is_punct(t))

\* deprel.startswith('discourse')
StartsWithDiscourse(deprel) == deprel \in {"discourse", "discourse:filler"}

all_tokens_in_lexicon(sent, lex) ==
    LET toks == new_nonpunct(sent)
    IN /\ toks # <<>>
       /\ \A i \in 1..Len(toks) : norm_form(toks[i].form) \in lex

check_speaker_continues(sents, current_idx, current_speaker) ==
    /\ current_idx + 1 <= Len(sents)
    /\ sents[current_idx + 1].doc = sents[current_idx].doc
    /\ sents[current_idx + 1].speaker = current_speaker

has_verbal_backchannel(sent, lex) ==
    \E i \in 1..Len(sent.tokens) :
        /\ ~new_is_punct(sent.tokens[i])
        /\ sent.tokens[i].upos = "VERB"
        /\ norm_form(sent.tokens[i].form) \in lex

\* the first component of matches_criteria
matches_criteria(first_tok, sent, lex) ==
    LET form_lower == norm_form(first_tok.form)
        non_punct_tokens == new_nonpunct(sent)
    IN IF form_lower \notin lex THEN FALSE
       ELSE IF CategoryOf(form_lower) = "multiword_starter"
       THEN /\ Len(non_punct_tokens) >= 2
            /\ norm_form(non_punct_tokens[2].form) \in lex
       ELSE first_tok.deprel = "root" \/ StartsWithDiscourse(first_tok.deprel)

\* the tests of main that skip the pair before B is looked at: lines 297-305
new_pair_ok(A, B) ==
    /\ A.doc = B.doc
    /\ A.sent_id # "" /\ B.sent_id # ""
    /\ A.speaker # "" /\ B.speaker # ""
    /\ A.speaker # B.speaker

\* one pass of the loop of main for the index i of B: the row appended to
\* candidates, or NoCandidate.  The columns that repeat texts, forms, tags
\* and sound urls are left out.
NewCandidate(sents, i, lex) ==
    LET A == sents[i - 1]
        B == sents[i]
        toks == new_nonpunct(B)
    IN IF ~new_pair_ok(A, B) THEN NoCandidate
       ELSE IF toks = <<>> THEN NoCandidate
       ELSE IF ~matches_criteria(toks[1], B, lex) THEN NoCandidate
       ELSE [doc |-> B.doc,
             A_sent_id |-> A.sent_id, A_speaker |-> A.speaker,
             B_sent_id |-> B.sent_id, B_speaker |-> B.speaker,
             first_token_form |-> toks[1].form,
             first_token_deprel |-> toks[1].deprel,
             backchannel_type |-> CategoryOf(norm_form(toks[1].form)),
             B_token_count |-> Len(toks),
             B_has_verbal_bc |-> has_verbal_backchannel(B, lex),
             B_all_in_lexicon |-> all_tokens_in_lexicon(B, lex),
             A_is_question |-> is_question_like(A.text),
             A_continues |-> check_speaker_continues(sents, i, A.speaker)]

RECURSIVE NewRowsFrom(_, _, _, _)
NewRowsFrom(sents, i, lex, rs) ==
    IF i > Len(sents) THEN rs
    ELSE LET row == NewCandidate(sents, i, lex)
         IN NewRowsFrom(sents, i + 1, lex,
                        IF row = NoCandidate THEN rs ELSE Append(rs, row))

\* the rows written to the candidate CSV
NewRows(ls) == NewRowsFrom(parse_conllu(ls), 2, NewLexicon, <<>>)

-----------------------------------------------------------------------------
(* scripts/extract_coconstruction_candidates.py *)

\* SENT_END_PUNCT, with "..." for the ellipsis character, and the part of
\* FILLER_FORMS among the forms of the model
SENT_END_PUNCT == {".", "?", "!", "..."}
FILLER_FORMS == {"eee"}

\* text.strip().strip(".,?!;:\"'()[]{}").lower() of a form of the model
normalize_word(form) == IF PunctForm(form) THEN "" ELSE norm_form(form)

\* [t for t in sent.tokens if t.upos != "PUNCT"]
content_tokens(sent) == SelectSeq(sent.tokens, LAMBDA t : t.upos # "PUNCT")

\* the loop of load_annotated_backchannels: the set after line i and the rest
RECURSIVE AnnotatedFrom(_, _, _, _, _)
AnnotatedFrom(ls, i, ids, current_sent_id, has_backchannel) ==
    LET closed == IF current_sent_id \notin {None, ""} /\ has_backchannel
                  THEN ids \cup {current_sent_id} ELSE ids
    IN IF i > Len(ls) THEN closed
       ELSE IF IsSidLine(ls[i]) THEN AnnotatedFrom(ls, i + 1, closed, ls[i].sid, FALSE)
       ELSE IF IsEmpty(ls[i]) THEN AnnotatedFrom(ls, i + 1, closed, None, FALSE)
       ELSE IF /\ ls[i].kind = "tok"
               /\ MiscHasText(ls[i].cols.misc, "Backchannel")
       THEN AnnotatedFrom(ls, i + 1, ids, current_sent_id, TRUE)
       ELSE AnnotatedFrom(ls, i + 1, ids, current_sent_id, has_backchannel)

\* the ids of the sentences of the backchannel-annotated file that hold a
\* Backchannel= entry; the empty set when the file does not exist
load_annotated_backchannels(f) ==
    IF f = NoFile THEN {} ELSE AnnotatedFrom(f, 1, {}, None, FALSE)

RECURSIVE FirstRootTokenFrom(_, _)
FirstRootTokenFrom(toks, i) ==
    IF i > Len(toks) THEN <<>>
    ELSE IF toks[i].deprel = "root" THEN <<toks[i]>>
    ELSE FirstRootTokenFrom(toks, i + 1)

\* the first token whose deprel is "root", as a sequence of at most one token
root_token(sent) == FirstRootTokenFrom(sent.tokens, 1)

\* faulty variant: only the full stop ends a sentence
sig_no_final_punct_FullStopOnly(a) ==
    /\ a.tokens # <<>>
    /\ a.tokens[Len(a.tokens)].form # "."

sig_no_final_punct(a) ==
    /\ a.tokens # <<>>
    /\ a.tokens[Len(a.tokens)].form \notin SENT_END_PUNCT

\* faulty variant: the last two content tokens
sig_orphan_tail_LastTwo(a) ==
    LET ct == content_tokens(a)
    IN \E i \in 1..Len(ct) : i > Len(ct) - 2 /\ ct[i].deprel = "orphan"

sig_orphan_tail(a) ==
    LET ct == content_tokens(a)
    IN \E i \in 1..Len(ct) : i > Len(ct) - 3 /\ ct[i].deprel = "orphan"

is_filler_token(tok) ==
    tok.deprel = "discourse:filler" \/ normalize_word(tok.form) \in FILLER_FORMS

\* the tests of main on the doc and the speakers of the pair: lines 311-317
coco_pair_ok(a, b) ==
    /\ a.doc = b.doc
    /\ a.speaker # "" /\ b.speaker # ""
    /\ a.speaker # b.speaker

\* one pass of the loop of main for the index i of a: the row appended to
\* candidates, or NoCandidate.  The columns that repeat texts, forms and
\* sound urls, and the two columns derived from the first word of b.text,
\* are left out.
CocoCandidate(sents, i, backchannel_sent_ids) ==
    LET a == sents[i]
        b == sents[i + 1]
        b_ct == content_tokens(b)
        b_root == root_token(b)
    IN IF ~coco_pair_ok(a, b) THEN NoCandidate
       ELSE IF ~sig_no_final_punct(a) THEN NoCandidate
       ELSE IF b.sent_id \in backchannel_sent_ids THEN NoCandidate
       ELSE IF b_ct = <<>> THEN NoCandidate
       ELSE IF \A k \in 1..Len(b_ct) : is_filler_token(b_ct[k]) THEN NoCandidate
       ELSE IF is_filler_token(b_ct[1]) THEN NoCandidate
       ELSE [doc |-> a.doc,
             a_sent_id |-> a.sent_id, a_speaker |-> a.speaker,
             b_sent_id |-> b.sent_id, b_speaker |-> b.speaker,
             len |-> Len(b_ct),
             b_root_upos |-> IF b_root # <<>> THEN b_root[1].upos ELSE "",
             orphan_tail |-> sig_orphan_tail(a),
             a_continues |->
                 /\ i + 2 <= Len(sents)
                 /\ sents[i + 2].doc = a.doc
                 /\ sents[i + 2].speaker = a.speaker,
             a_is_question |-> HasQuestionMark(a.text),
             b_has_question_mark |-> HasQuestionMark(b.text),
             b_root_is_intj_part |->
                 b_root # <<>> /\ b_root[1].upos \in {"INTJ", "PART"}]

RECURSIVE CocoRowsFrom(_, _, _, _)
CocoRowsFrom(sents, i, ids, rs) ==
    IF i + 1 > Len(sents) THEN rs
    ELSE LET row == CocoCandidate(sents, i, ids)
         IN CocoRowsFrom(sents, i + 1, ids,
                         IF row = NoCandidate THEN rs ELSE Append(rs, row))

\* rs with row put behind the last row that is not longer
RECURSIVE InsertByLen(_, _)
InsertByLen(rs, row) ==
    IF rs = <<>> THEN <<row>>
    ELSE IF rs[Len(rs)].len <= row.len THEN Append(rs, row)
    ELSE Append(InsertByLen(SubSeq(rs, 1, Len(rs) - 1), row), rs[Len(rs)])

\* candidates.sort(key=lambda row: row["len"]): stable
RECURSIVE SortByLen(_)
SortByLen(rs) ==
    IF rs = <<>> THEN <<>>
    ELSE InsertByLen(SortByLen(SubSeq(rs, 1, Len(rs) - 1)), rs[Len(rs)])

\* the rows written to the candidate CSV
CocoCandidates(ls, f) ==
    SortByLen(CocoRowsFrom(parse_conllu(ls), 1, load_annotated_backchannels(f), <<>>))

-----------------------------------------------------------------------------
(* Corpora of dialogue turns for the extractors *)

\* the sent_id of the k-th sentence of a corpus: no id occurs twice
SidName(k) ==
    CASE k = 1 -> "s1" [] k = 2 -> "s2" [] k = 3 -> "s3"
      [] k = 4 -> "s4" [] k = 5 -> "s5" [] OTHER -> "s6"

\* token lines of a turn
BodyJa == <<UposLine("1", "ja", "INTJ", "0", "discourse", <<Underscore>>)>>
BodyMhm == <<UposLine("1", "Mhm", "INTJ", "0", "discourse", <<Underscore>>)>>
BodyVerb == <<UposLine("1", "razumem", "VERB", "0", "discourse", <<Underscore>>)>>
BodyLong ==
    <<UposLine("1", "in", "CCONJ", "3", "cc", <<Underscore>>),
      UposLine("2", "potem", "ADV", "3", "advmod", <<Underscore>>),
      UposLine("3", "sli", "VERB", "0", "root", <<Underscore>>),
      UposLine("4", "domov", "ADV", "3", "advmod", <<Underscore>>),
      UposLine("5", ".", "PUNCT", "3", "punct", <<Underscore>>)>>

BodyJaJa ==
    <<UposLine("1", "ja", "INTJ", "0", "discourse", <<Underscore>>),
      UposLine("2", ",", "PUNCT", "1", "punct", <<Underscore>>),
      UposLine("3", "ja", "INTJ", "1", "discourse", <<Underscore>>),
      UposLine("4", ".", "PUNCT", "1", "punct", <<Underscore>>)>>

\* a turn: the comments it has and its token lines
Turn(newdoc, has_sid, speaker, text, body) ==
    [newdoc |-> newdoc, has_sid |-> has_sid, speaker |-> speaker,
     text |-> text, body |-> body]

\* the lines of the k-th sentence block, closed by an empty line
TurnBlock(k, t) ==
    (IF t.newdoc # None THEN <<NewdocLine(t.newdoc)>> ELSE <<>>)
    \o (IF t.has_sid THEN <<SidLine(SidName(k))>> ELSE <<>>)
    \o (IF t.speaker # "" THEN <<SpeakerLine(t.speaker)>> ELSE <<>>)
    \o <<TextLine(t.text)>> \o t.body \o <<BlankLine>>

RECURSIVE TurnLines(_, _)
TurnLines(ts, k) ==
    IF k > Len(ts) THEN <<>> ELSE TurnBlock(k, ts[k]) \o TurnLines(ts, k + 1)

\* the files of at most n turns drawn from the set T
TurnCorpora(T, n) == {TurnLines(ts, 1) : ts \in UNION {[1..k -> T] : k \in 0..n}}

\* turns for the pairing tests: with and without a newdoc comment, a sent_id
\* and a speaker
PairTurns ==
    {Turn(d, TRUE, sp, TextPlain, BodyJa) :
        d \in {None, "d1", "d2"}, sp \in {"", "P1", "P2"}}
    \cup {Turn(None, FALSE, sp, TextPlain, BodyJa) : sp \in {"P1", "P2"}}

PairCorpora == TurnCorpora(PairTurns, MaxPairTurns)

\* a backchannel-annotated copy of the corpus: token line i holds Backchannel=
MarkBackchannel(ls, i) == [ls EXCEPT ![i] = WithMisc(@, <<BcOld>>)]

\* the three extractors on one corpus
InitPairs ==
    /\ script \in {"hr", "new", "cocoex"}
    /\ pc = "start"
    /\ run = 1
    /\ rows = <<>>
    /\ ann = EmptyDict
    /\ lines \in PairCorpora
    /\ out = <<>>
    /\ file \in IF script = "cocoex"
                THEN {NoFile} \cup {MarkBackchannel(lines, i) :
                                      i \in {j \in 1..Len(lines) : lines[j].kind = "tok"}}
                ELSE {NoFile}
    /\ err = "none"
    /\ warned = 0
    /\ cnt = NoCount
    /\ report = NoReport

\* extract_backchannels_high_recall.py main
HrExtract ==
    /\ script = "hr" /\ pc = "start"
    /\ rows' = HrRows(lines)
    /\ pc' = "extracted"
    /\ UNCHANGED <<script, run, ann, lines, out, file, err, warned, cnt, report>>

\* extract_backchannels_new.py main
NewExtract ==
    /\ script = "new" /\ pc = "start"
    /\ rows' = NewRows(lines)
    /\ pc' = "extracted"
    /\ UNCHANGED <<script, run, ann, lines, out, file, err, warned, cnt, report>>

\* extract_coconstruction_candidates.py main
CocoExtract ==
    /\ script = "cocoex" /\ pc = "start"
    /\ rows' = CocoCandidates(lines, file)
    /\ pc' = "extracted"
    /\ UNCHANGED <<script, run, ann, lines, out, file, err, warned, cnt, report>>

NextPairs == HrExtract \/ NewExtract \/ CocoExtract

SpecPairs == InitPairs /\ [][NextPairs]_vars

-----------------------------------------------------------------------------
(* C17 *)

\* the first lines of the sentence blocks of a file
BlockStartsOf(ls) ==
    {i \in 1..Len(ls) : ~IsEmpty(ls[i]) /\ (i = 1 \/ IsEmpty(ls[i - 1]))}

\* the index after the last line of the block that starts at s
BlockEndOf(ls, s) ==
    CHOOSE j \in (s + 1)..(Len(ls) + 1) :
        /\ j = Len(ls) + 1 \/ IsEmpty(ls[j])
        /\ \A m \in s..(j - 1) : ~IsEmpty(ls[m])

\* the value of the last comment of the given kind in the block at s, or ""
BlockMeta(ls, s, kind) ==
    LET I == {i \in s..(BlockEndOf(ls, s) - 1) : ls[i].kind = kind}
    IN IF I = {} THEN "" ELSE ls[CHOOSE i \in I : \A m \in I : m <= i].sid

\* the value of the most recent newdoc comment at or before the block at s
BlockDoc(ls, s) ==
    LET I == {i \in 1..(BlockEndOf(ls, s) - 1) : ls[i].kind = "newdoc"}
    IN IF I = {} THEN "" ELSE ls[CHOOSE i \in I : \A m \in I : m <= i].sid

\* the blocks at a and b are two turns of one document, b next after a, by
\* two different named speakers, with the given ids and speakers
C17_LocalPair(ls, a_id, a_sp, b_id, b_sp) ==
    \E a \in BlockStartsOf(ls) : \E b \in BlockStartsOf(ls) :
        /\ a < b
        /\ \A m \in BlockStartsOf(ls) : ~(a < m /\ m < b)
        /\ BlockMeta(ls, a, "sid") = a_id /\ BlockMeta(ls, b, "sid") = b_id
        /\ BlockMeta(ls, a, "speaker") = a_sp /\ BlockMeta(ls, b, "speaker") = b_sp
        /\ BlockDoc(ls, a) = BlockDoc(ls, b)
        /\ a_sp # "" /\ b_sp # "" /\ a_sp # b_sp

\* C17: every candidate row of the two backchannel extractors and of the
\* co-construction extractor names a pair (A, B) in which B is the sentence
\* right after A, both lie in the same document (the most recent newdoc id at
\* or before each), and the two speakers are non-empty and different.
C17_TurnPairLocality ==
    (script \in {"hr", "new", "cocoex"} /\ pc = "extracted") =>
        \A k \in 1..Len(rows) :
            IF script = "cocoex"
            THEN C17_LocalPair(lines, rows[k].a_sent_id, rows[k].a_speaker,
                               rows[k].b_sent_id, rows[k].b_speaker)
            ELSE C17_LocalPair(lines, rows[k].A_sent_id, rows[k].A_speaker,
                               rows[k].B_sent_id, rows[k].B_speaker)

\* each extractor emits a candidate from a corpus that also holds a change of
\* document or a turn without a speaker
C17_Witness ==
    /\ script \in {"hr", "new", "cocoex"} /\ pc = "extracted"
    /\ Len(rows) = 1
    /\ Cardinality(BlockStartsOf(lines)) = 3
    /\ \E a \in BlockStartsOf(lines) : \E b \in BlockStartsOf(lines) :
          a < b /\ BlockDoc(lines, a) # BlockDoc(lines, b)

-----------------------------------------------------------------------------
(* The backchannel pipeline: extract_backchannels_high_recall.py, the review *)
(* of its candidates, update-conllu/apply_backchannels_to_conllu.py and      *)
(* 07_diffcheck_final_vs_src.py on the input and the output of the merge     *)

\* turns of two speakers in one document
HrTurns ==
    {Turn(None, TRUE, "P1", TextPlain, BodyLong),
     Turn(None, TRUE, "P1", TextAsk, BodyLong),
     Turn(None, TRUE, "P1", TextPlain, BodyJaJa),
     Turn(None, TRUE, "P1", TextPlain, BodyMhm),
     Turn(None, TRUE, "P2", TextPlain, BodyMhm),
     Turn(None, TRUE, "P2", TextPlain, BodyVerb),
     Turn(None, TRUE, "P2", TextPlain, BodyLong)}

HrCorpora == TurnCorpora(HrTurns, MaxTurns)

InitHr ==
    /\ script = "hr"
    /\ pc = "start"
    /\ run = 1
    /\ rows = <<>>
    /\ ann = EmptyDict
    /\ lines \in HrCorpora
    /\ out = <<>>
    /\ file = NoFile
    /\ err = "none"
    /\ warned = 0
    /\ cnt = NoCount
    /\ report = NoReport

\* the decisions B_sent_id -> A_sent_id of the rows numbered in K
DecisionsOf(rs, K) ==
    [b \in {rs[k].B_sent_id : k \in K} |->
        rs[CHOOSE k \in K : rs[k].B_sent_id = b /\
              \A m \in K : rs[m].B_sent_id = b => m <= k].A_sent_id]

\* the review: no row, one row or every row of the candidate CSV is marked
\* keep, and main of apply_backchannels_to_conllu.py loads the marked rows
HrAccept ==
    /\ script = "hr" /\ pc = "extracted"
    /\ \E K \in {{}} \cup {{k} : k \in 1..Len(rows)} \cup {1..Len(rows)} :
           ann' = DecisionsOf(rows, K)
    /\ pc' = "accepted"
    /\ UNCHANGED <<script, run, rows, lines, out, file, err, warned, cnt, report>>

\* apply_backchannels_to_conllu.py, lines 145-161, on the reviewed decisions
HrMerge ==
    /\ script = "hr" /\ pc = "accepted"
    /\ LET st == BcStream(lines, 1, BcStart, ann)
       IN  /\ out' = st.w
           /\ file' = st.w
           /\ warned' = st.missing_a_root + st.missing_b_root
    /\ pc' = "done"
    /\ UNCHANGED <<script, run, rows, ann, lines, err, cnt, report>>

NextHr == HrExtract \/ HrAccept \/ HrMerge \/ DiffCheck

SpecHr == InitHr /\ [][NextHr]_vars

-----------------------------------------------------------------------------
(* C18 *)

\* the first line of the i-th sentence block of a file
NthBlockStart(ls, i) ==
    CHOOSE s \in BlockStartsOf(ls) :
        Cardinality({m \in BlockStartsOf(ls) : m <= s}) = i

\* sentences i-1, i, i+1 are A, B, C: A by one speaker, of more than 3 tokens,
\* without "?" in its text and with exactly one token of head 0; B by another
\* speaker, its one non-punctuation token in the lexicon, with deprel
\* "discourse", head 0 and MISC "_"; C by the speaker of A
C18_Scenario(sents, i) ==
    /\ i >= 2 /\ i + 1 <= Len(sents)
    /\ LET A == sents[i - 1]
           B == sents[i]
           nb == nonpunct_tokens(B)
       IN /\ A.speaker # "" /\ B.speaker # "" /\ A.speaker # B.speaker
          /\ sents[i + 1].speaker = A.speaker
          /\ Len(A.tokens) > 3
          /\ ~HasQuestionMark(A.text)
          /\ Cardinality({k \in 1..Len(A.tokens) : A.tokens[k].head = 0}) = 1
          /\ Len(nb) = 1
          /\ norm_form(nb[1].form) \in DEFAULT_SEED_LEXICON
          /\ nb[1].deprel = "discourse" /\ nb[1].head = 0
          /\ nb[1].misc = <<Underscore>>

\* more than 3 tokens of A are no punctuation, and the token of B is no verb
C18_PlainTurns(sents, i) ==
    /\ Len(nonpunct_tokens(sents[i - 1])) > 3
    /\ \A k \in 1..Len(sents[i].tokens) : sents[i].tokens[k].upos # "VERB"

\* what the scenario promises for B = sents[i], as far as the pipeline got
C18_Outcome(sents, i) ==
    LET A == sents[i - 1]
        B == sents[i]
        r == IntStr(sent_root_id(A))
        s == NthBlockStart(lines, i)
        R == {k \in 1..Len(rows) : rows[k].B_sent_id = B.sent_id}
    IN /\ pc # "start" =>
             /\ Cardinality(R) = 1
             /\ \A k \in R :
                   /\ rows[k].confidence = "HIGH"
                   /\ rows[k].confidence_score >= 80
                   /\ rows[k].proposed_attach_root = <<A.sent_id, r>>
       /\ (pc \in {"done", "checked"} /\ B.sent_id \in DOMAIN ann) =>
             /\ Len(out) = Len(lines)
             /\ \A j \in s..(BlockEndOf(lines, s) - 1) :
                   lines[j].kind = "tok" =>
                       out[j] = WithMisc(lines[j], <<BcFeature(A.sent_id, r)>>)
       /\ (pc = "checked" /\ DOMAIN ann = {B.sent_id}) =>
             /\ cnt.diff_lines = 1
             /\ cnt.added_backchannel = 1
             /\ C15_Unsanctioned(cnt) = 0
             /\ SectionStatus(cnt) = "PASS"

-----------------------------------------------------------------------------
(* matches_criteria of extract_backchannels_new.py on the shapes of B *)

\* token lines of B: an optional leading punctuation token, a first token
\* with the given form and deprel, and an optional second token
CritBody(lead, form, deprel, second) ==
    LET n == IF lead THEN 1 ELSE 0
    IN (IF lead THEN <<UposLine("1", ".", "PUNCT", IntStr(2), "punct", <<Underscore>>)>>
        ELSE <<>>)
       \o <<UposLine(IntStr(n + 1), form, "X",
                     IF deprel \in {"root", "discourse"} THEN "0" ELSE IntStr(n + 2),
                     deprel, <<Underscore>>)>>
       \o (IF second # "" THEN <<UposLine(IntStr(n + 2), second, "X", IntStr(n + 1),
                                          "dep", <<Underscore>>)>>
           ELSE <<>>)

CritBodies ==
    {CritBody(lead, form, deprel, second) :
        lead \in BOOLEAN, form \in {"ja", "Ja", "v", "hisa"},
        deprel \in {"root", "discourse", "discourse:filler", "case"},
        second \in {"", "redu", "hisa"}}

\* A by one speaker, B by another
CritCorpora ==
    {TurnLines(<<Turn(None, TRUE, "P1", text, BodyLong),
                 Turn(None, TRUE, "P2", TextPlain, body)>>, 1) :
        text \in {TextPlain, TextAsk}, body \in CritBodies}

InitCrit ==
    /\ script = "new"
    /\ pc = "start"
    /\ run = 1
    /\ rows = <<>>
    /\ ann = EmptyDict
    /\ lines \in CritCorpora
    /\ out = <<>>
    /\ file = NoFile
    /\ err = "none"
    /\ warned = 0
    /\ cnt = NoCount
    /\ report = NoReport

NextCrit == NewExtract

SpecCrit == InitCrit /\ [][NextCrit]_vars

-----------------------------------------------------------------------------
(* C19 *)

\* the sentence is accepted by the criteria as stated: the normalized form of
\* its first non-punctuation token is in the lexicon, and either that token's
\* deprel is "root" or begins with "discourse", or the lexicon flags the form
\* multiword_starter and the second non-punctuation token is in the lexicon
C19_Accepted(B) ==
    LET toks == SelectSeq(B.tokens, LAMBDA t : t.upos # "PUNCT")
    IN /\ toks # <<>>
       /\ norm_form(toks[1].form) \in NewLexicon
       /\ \/ toks[1].deprel = "root"
          \/ toks[1].deprel \in {"discourse", "discourse:filler"}
          \/ /\ CategoryOf(norm_form(toks[1].form)) = "multiword_starter"
             /\ Len(toks) >= 2
             /\ norm_form(toks[2].form) \in NewLexicon

\* C19: the new extractor emits a candidate for B, the sentence after A by
\* another speaker, exactly when B is accepted by the criteria as stated; in
\* particular a multiword starter with deprel "root" or "discourse" is
\* accepted without a second lexicon token.
C19_MatchesCriteria ==
    (script = "new" /\ pc = "extracted" /\ Len(parse_conllu(lines)) = 2) =>
        ((\E k \in 1..Len(rows) : rows[k].B_sent_id = parse_conllu(lines)[2].sent_id)
            <=> C19_Accepted(parse_conllu(lines)[2]))

-----------------------------------------------------------------------------
(* C20 *)

\* the base confidence of a row, read from its continuation evidence
C20_Base(row) ==
    LET why == row.why_candidate[1]
    IN IF \E k \in 1..Len(why) : why[k] = "A continues immediately after B" THEN "HIGH"
       ELSE IF \E k \in 1..Len(why) : why[k] = "A continues within window turns"
       THEN "MEDIUM" ELSE "LOW"

\* one step below
C20_StepDown(c) == IF c = "HIGH" THEN "MEDIUM" ELSE "LOW"

\* C20: a candidate whose B follows a question (the text of A holds "?"),
\* with no other warning flag set and B of at most 3 tokens, has a confidence
\* exactly one step below its base confidence: MEDIUM for HIGH, LOW for
\* MEDIUM, LOW for LOW.
C20_QuestionDowngrade ==
    (script = "hr" /\ pc = "extracted") =>
        \A k \in 1..Len(rows) :
            (/\ rows[k].B_after_question
             /\ ~rows[k].A_looks_like_backchannel
             /\ ~rows[k].B_has_content
             /\ ~rows[k].B_is_question
             /\ rows[k].B_token_count <= 3)
                => rows[k].confidence = C20_StepDown(C20_Base(rows[k]))

-----------------------------------------------------------------------------
(* The high-recall extractor on pairs (A, B) of every flag combination,     *)
(* length of B and continuation evidence                                    *)

\* token lines of an A without a token of head 0
BodyNoRoot ==
    <<UposLine("1", "in", "CCONJ", "2", "cc", <<Underscore>>),
      UposLine("2", "potem", "ADV", "_", "advmod", <<Underscore>>)>>

\* token lines of a B of n tokens: "ja", then n - 1 tokens of the given form
\* and UPOS
BodyOfLength(n, form, upos) ==
    [i \in 1..n |->
        IF i = 1 THEN UposLine("1", "ja", "INTJ", "0", "discourse", <<Underscore>>)
        ELSE UposLine(IntStr(i), form, upos, "1", "dep", <<Underscore>>)]

\* the turns A of the pairs
CandA ==
    {Turn(None, TRUE, "P1", text, body) :
        text \in {TextPlain, TextAsk}, body \in {BodyLong, BodyJaJa, BodyNoRoot}}

\* the turns B of the pairs
CandB ==
    {Turn(None, TRUE, "P2", text, BodyOfLength(n, fu[1], fu[2])) :
        text \in {TextPlain, TextAsk}, n \in 1..7,
        fu \in {<<"ja", "INTJ">>, <<"hisa", "NOUN">>, <<"razumem", "VERB">>}}

\* the speakers of the turns after B: A's speaker at once, after one turn,
\* after four turns (the last of the window), after five, or not at all
CandTails ==
    {<<>>, <<"P1">>, <<"P2", "P1">>, <<"P2", "P2", "P2">>,
     <<"P2", "P2", "P2", "P1">>, <<"P2", "P2", "P2", "P2", "P1">>}

TailTurns(sp) == [k \in 1..Len(sp) |-> Turn(None, TRUE, sp[k], TextPlain, BodyLong)]

\* ls with the comment "# sent_id = a" replaced by "# sent_id = b"
Resid(ls, a, b) ==
    [i \in 1..Len(ls) |-> IF IsSidLine(ls[i]) /\ ls[i].sid = a THEN SidLine(b) ELSE ls[i]]

\* A, B and the turns after B; and files A, B, C, B', D in which the fourth
\* sentence is a one-token B' that repeats the sent_id of B
CandCorpora ==
    {TurnLines(<<a, b>> \o TailTurns(t), 1) : a \in CandA, b \in CandB, t \in CandTails}
    \cup {Resid(TurnLines(<<a, b, Turn(None, TRUE, "P1", TextPlain, BodyLong),
                            Turn(None, TRUE, "P2", TextPlain, BodyMhm),
                            Turn(None, TRUE, "P1", TextPlain, BodyLong)>>, 1),
                "s4", "s2") : a \in CandA, b \in CandB}

InitCand ==
    /\ script = "hr"
    /\ pc = "start"
    /\ run = 1
    /\ rows = <<>>
    /\ ann = EmptyDict
    /\ lines \in CandCorpora
    /\ out = <<>>
    /\ file = NoFile
    /\ err = "none"
    /\ warned = 0
    /\ cnt = NoCount
    /\ report = NoReport

NextCand == HrExtract

SpecCand == InitCand /\ [][NextCand]_vars

-----------------------------------------------------------------------------
(* C21 *)

\* the number of warning flags of a row
C21_Flags(row) ==
    Cardinality({k \in 1..4 :
        <<row.A_looks_like_backchannel, row.B_has_content,
          row.B_is_question, row.B_after_question>>[k]})

-----------------------------------------------------------------------------
(* The confidence rules of extract_backchannels_high_recall.py, lines        *)
(* 433-508, as a function of the evidence: the two continuation tests, the   *)
(* number of tokens of B and the four warning flags                          *)

Evidence ==
    [has_immediate_aba : BOOLEAN, has_windowed_aba : BOOLEAN, n_tok : 1..MaxNTok,
     A_is_backchannel_like : BOOLEAN, B_has_content : BOOLEAN,
     B_is_multi_token_q : BOOLEAN, B_after_question : BOOLEAN]

\* base_confidence of lines 434-454
BaseConfidence(e) ==
    IF e.has_immediate_aba THEN "HIGH"
    ELSE IF e.has_windowed_aba THEN "MEDIUM" ELSE "LOW"

\* warning_count of line 475
WarningCount(e) ==
    CountTrue(<<e.B_has_content, e.B_is_multi_token_q,
                e.B_after_question, e.A_is_backchannel_like>>)

\* confidence of lines 477-499
ConfidenceOf(e) ==
    Downgrade(BaseConfidence(e), e.B_after_question, e.n_tok, WarningCount(e))

\* numeric_confidence of lines 503-508
ScoreOf(e) ==
    compute_numeric_confidence(ConfidenceOf(e), e.n_tok, WarningCount(e),
        e.has_immediate_aba, e.has_windowed_aba /\ ~e.has_immediate_aba,
        e.B_after_question /\ e.B_has_content)

InitScore ==
    /\ script = "score"
    /\ pc = "start"
    /\ run = 1
    /\ rows = <<>>
    /\ ann \in Evidence
    /\ lines = <<>>
    /\ out = <<>>
    /\ file = NoFile
    /\ err = "none"
    /\ warned = 0
    /\ cnt = NoCount
    /\ report = NoReport

\* lines 473-508 on the evidence held in ann
ScoreApply ==
    /\ script = "score" /\ pc = "start"
    /\ rows' = <<[confidence |-> ConfidenceOf(ann), confidence_score |-> ScoreOf(ann)]>>
    /\ pc' = "scored"
    /\ UNCHANGED <<script, run, ann, lines, out, file, err, warned, cnt, report>>

NextScore == ScoreApply

SpecScore == InitScore /\ [][NextScore]_vars

-----------------------------------------------------------------------------
(* C22 *)

\* base + length_adj - 15 * warning_count - (40 if answer-like), as stated
C22_Raw(e) ==
    (IF e.has_immediate_aba THEN 85 ELSE IF e.has_windowed_aba THEN 70 ELSE 35)
    + (IF e.n_tok = 1 THEN 10 ELSE IF e.n_tok = 2 THEN 5 ELSE IF e.n_tok = 3 THEN 0
       ELSE IF e.n_tok = 4 THEN -15 ELSE IF e.n_tok = 5 THEN -25 ELSE -50)
    - 15 * WarningCount(e)
    - (IF e.B_after_question /\ e.B_has_content THEN 40 ELSE 0)

\* C22: the numeric score is max(0, min(100, base + length_adj
\* - 15 * warning_count - (40 if answer-like))), with base 85 / 70 / 35 for
\* immediate / windowed only / no continuation and length_adj +10, +5, 0,
\* -15, -25 for 1 to 5 tokens and -50 for 6 or more; it lies in 0..100 and
\* is the same for every value of the categorical confidence argument.
C22_NumericScore ==
    (script = "score" /\ pc = "scored") =>
        /\ rows[1].confidence_score \in 0..100
        /\ rows[1].confidence_score =
              (IF C22_Raw(ann) < 0 THEN 0
               ELSE IF C22_Raw(ann) > 100 THEN 100 ELSE C22_Raw(ann))
        /\ \A c \in {"HIGH", "MEDIUM", "LOW"} :
              compute_numeric_confidence(c, ann.n_tok, WarningCount(ann),
                  ann.has_immediate_aba,
                  ann.has_windowed_aba /\ ~ann.has_immediate_aba,
                  ann.B_after_question /\ ann.B_has_content)
              = rows[1].confidence_score

\* a score that the clamp raised to 0
C22_Witness ==
    /\ script = "score" /\ pc = "scored"
    /\ C22_Raw(ann) < 0 /\ rows[1].confidence_score = 0

-----------------------------------------------------------------------------
(* C23 *)

\* the speaker of sents[i - 1] speaks again within the window after B =
\* sents[i], or B is among the last three sentences (one document)
HasContinuation(sents, i) ==
    \/ \E j \in (i + 1)..(i + 4) :
          j <= Len(sents) /\ sents[j].speaker = sents[i - 1].speaker
    \/ Len(sents) - i <= 2

\* the ids of the tokens of a sentence whose head is 0
C23_HeadZeroIds(sent) ==
    {IntStr(sent.tokens[k].tid) : k \in {m \in 1..Len(sent.tokens) : sent.tokens[m].head = 0}}

\* C23: every emitted candidate's proposed_attach_root is A.sent_id::t for a
\* token t of A with head 0 when A has one, and empty when A has none; and a
\* pair whose A has no such token is emitted all the same.
C23_AttachmentPoint ==
    (script = "hr" /\ pc = "extracted") =>
        LET sents == parse_conllu(lines)
        IN /\ \A k \in 1..Len(rows) :
                \E i \in 2..Len(sents) :
                    /\ sents[i].sent_id = rows[k].B_sent_id
                    /\ sents[i - 1].sent_id = rows[k].A_sent_id
                    /\ IF C23_HeadZeroIds(sents[i - 1]) = {}
                       THEN rows[k].proposed_attach_root = <<>>
                       ELSE \E t \in C23_HeadZeroIds(sents[i - 1]) :
                               rows[k].proposed_attach_root = <<sents[i - 1].sent_id, t>>
           /\ \A i \in 2..Len(sents) :
                (/\ C23_HeadZeroIds(sents[i - 1]) = {}
                 /\ sents[i - 1].speaker # sents[i].speaker
                 /\ sents[i].tokens # <<>>
                 /\ sents[i].tokens[1].form = "ja"
                 /\ HasContinuation(sents, i))
                    => \E k \in 1..Len(rows) :
                          /\ rows[k].B_sent_id = sents[i].sent_id
                          /\ rows[k].proposed_attach_root = <<>>

\* a candidate with an empty attachment is emitted
C23_Witness ==
    /\ script = "hr" /\ pc = "extracted"
    /\ Len(rows) = 1 /\ rows[1].proposed_attach_root = <<>>
    /\ rows[1].A_sent_id = "s1"

-----------------------------------------------------------------------------
(* C28 *)

\* C28: every adjacent pair of one document with different non-empty
\* speakers whose B has a lexicon token, is no greeting and has continuation
\* evidence is written as a candidate, whatever warning flags hold and
\* whatever the length of B.
C28_FlagsNeverExclude ==
    (script = "hr" /\ pc = "extracted") =>
        LET sents == parse_conllu(lines)
        IN \A i \in 2..Len(sents) :
              (/\ hr_pair_ok(sents[i - 1], sents[i])
               /\ count_lexicon_hits(sents[i], DEFAULT_SEED_LEXICON).hits >= MinLexHits
               /\ ~is_greeting_phrase(sents[i].text)
               /\ HasContinuation(sents, i))
                  => \E k \in 1..Len(rows) : rows[k].B_sent_id = sents[i].sent_id

-----------------------------------------------------------------------------
(* C26 *)

\* LOW < MEDIUM < HIGH
C26_Rank(c) == CASE c = "HIGH" -> 3 [] c = "MEDIUM" -> 2 [] OTHER -> 1

\* none < windowed < immediate
C26_Strength(e) ==
    IF e.has_immediate_aba THEN 3 ELSE IF e.has_windowed_aba THEN 2 ELSE 1

C26_Flags(e) ==
    <<e.B_has_content, e.B_is_multi_token_q, e.B_after_question, e.A_is_backchannel_like>>

\* d has the evidence of e with one more warning flag
C26_AddsFlag(e, d) ==
    /\ d.n_tok = e.n_tok
    /\ d.has_immediate_aba = e.has_immediate_aba
    /\ d.has_windowed_aba = e.has_windowed_aba
    /\ \E k \in 1..4 :
          /\ ~C26_Flags(e)[k] /\ C26_Flags(d)[k]
          /\ \A m \in (1..4) \ {k} : C26_Flags(d)[m] = C26_Flags(e)[m]

\* d has the evidence of e with a longer B
C26_Longer(e, d) ==
    /\ d.n_tok > e.n_tok
    /\ C26_Flags(d) = C26_Flags(e)
    /\ d.has_immediate_aba = e.has_immediate_aba
    /\ d.has_windowed_aba = e.has_windowed_aba

\* d has the evidence of e with stronger continuation evidence
C26_Stronger(e, d) ==
    /\ C26_Strength(d) > C26_Strength(e)
    /\ C26_Flags(d) = C26_Flags(e)
    /\ d.n_tok = e.n_tok

\* C26: the confidence and the score computed for the evidence ann are not
\* exceeded by those of the same evidence with one more warning flag or a
\* longer B, and are not undercut by those of the same evidence with stronger
\* continuation (none, windowed, immediate).
C26_Monotonic ==
    (script = "score" /\ pc = "scored") =>
        \A d \in Evidence :
            /\ (C26_AddsFlag(ann, d) \/ C26_Longer(ann, d)) =>
                  /\ C26_Rank(ConfidenceOf(d)) <= C26_Rank(rows[1].confidence)
                  /\ ScoreOf(d) <= rows[1].confidence_score
            /\ C26_Stronger(ann, d) =>
                  /\ C26_Rank(ConfidenceOf(d)) >= C26_Rank(rows[1].confidence)
                  /\ ScoreOf(d) >= rows[1].confidence_score

\* windowed continuation, one token, no flag: MEDIUM and 80, between LOW 45
\* without continuation and HIGH 95 with immediate continuation
C26_Witness ==
    /\ script = "score" /\ pc = "scored"
    /\ C26_Strength(ann) = 2 /\ ann.n_tok = 1 /\ WarningCount(ann) = 0
    /\ rows[1].confidence = "MEDIUM" /\ rows[1].confidence_score = 80
    /\ \E d \in Evidence :
          C26_AddsFlag(ann, d) /\ ConfidenceOf(d) = "MEDIUM" /\ ScoreOf(d) = 65
    /\ \E d \in Evidence :
          C26_Longer(ann, d) /\ ConfidenceOf(d) = "LOW" /\ ScoreOf(d) = 20
    /\ \E d \in Evidence :
          C26_Stronger(ann, d) /\ ConfidenceOf(d) = "HIGH" /\ ScoreOf(d) = 95

-----------------------------------------------------------------------------
(* Corpora for the filters of the co-construction extractor *)

BodyBang ==
    <<UposLine("1", "sli", "VERB", "0", "root", <<Underscore>>),
      UposLine("2", "!", "PUNCT", "1", "punct", <<Underscore>>)>>
BodyQuestion ==
    <<UposLine("1", "sli", "VERB", "0", "root", <<Underscore>>),
      UposLine("2", "?", "PUNCT", "1", "punct", <<Underscore>>)>>
BodyOrphanLast ==
    <<UposLine("1", "sli", "VERB", "0", "root", <<Underscore>>),
      UposLine("2", "v", "ADP", "1", "orphan", <<Underscore>>)>>
BodyOrphanThird ==
    <<UposLine("1", "v", "ADP", "2", "orphan", <<Underscore>>),
      UposLine("2", "sli", "VERB", "0", "root", <<Underscore>>),
      UposLine("3", ",", "PUNCT", "2", "punct", <<Underscore>>),
      UposLine("4", "potem", "ADV", "2", "advmod", <<Underscore>>)>>
BodyThree ==
    <<UposLine("1", "lepo", "ADJ", "2", "amod", <<Underscore>>),
      UposLine("2", "hiso", "NOUN", "0", "root", <<Underscore>>),
      UposLine("3", "domov", "ADV", "2", "advmod", <<Underscore>>)>>
BodyPunct == <<UposLine("1", ".", "PUNCT", "0", "root", <<Underscore>>)>>
BodyFiller ==
    <<UposLine("1", "eee", "INTJ", "0", "root", <<Underscore>>),
      UposLine("2", ",", "PUNCT", "1", "punct", <<Underscore>>),
      UposLine("3", "no", "PART", "1", "discourse:filler", <<Underscore>>)>>
BodyFillerFirst ==
    <<UposLine("1", ",", "PUNCT", "3", "punct", <<Underscore>>),
      UposLine("2", "eee", "INTJ", "3", "discourse", <<Underscore>>),
      UposLine("3", "hiso", "NOUN", "0", "root", <<Underscore>>)>>
BodyFillerDeprelFirst ==
    <<UposLine("1", "no", "PART", "2", "discourse:filler", <<Underscore>>),
      UposLine("2", "hiso", "NOUN", "0", "root", <<Underscore>>)>>
BodyFillerLast ==
    <<UposLine("1", ",", "PUNCT", "2", "punct", <<Underscore>>),
      UposLine("2", "hiso", "NOUN", "0", "root", <<Underscore>>),
      UposLine("3", "eee", "INTJ", "2", "discourse:filler", <<Underscore>>)>>

\* the turns A: with and without a speaker, with and without tokens, ending
\* in ".", "!", "?" or in a word, with and without an orphan near the end
FiltA ==
    {Turn(None, TRUE, sp, text, body) :
        sp \in {"P1", ""}, text \in {TextPlain},
        body \in {<<>>, BodyLong, BodyBang, BodyQuestion, BodyNoRoot,
                  BodyOrphanLast, BodyOrphanThird}}

\* the turns B: in the document of A or a new one, by the other speaker or
\* the same, with and without a question mark, with and without fillers
FiltB ==
    {Turn(d, TRUE, sp, text, body) :
        d \in {None, "d2"}, sp \in {"P2", "P1"}, text \in {TextPlain, TextAsk},
        body \in {BodyThree, BodyJa, BodyPunct, BodyFiller, BodyFillerFirst,
                  BodyFillerDeprelFirst, BodyFillerLast}}

\* the turns after B
FiltTails ==
    {<<>>, <<Turn(None, TRUE, "P1", TextPlain, BodyLong)>>,
     <<Turn(None, TRUE, "P1", TextPlain, BodyVerb)>>}

FiltCorpora == {TurnLines(<<a, b>> \o t, 1) : a \in FiltA, b \in FiltB, t \in FiltTails}

\* the indices of the first token lines of the first two sentences
FiltMarks(ls) ==
    {i \in 1..Len(ls) :
        /\ ls[i].kind = "tok"
        /\ i > 1 /\ ls[i - 1].kind # "tok"
        /\ Cardinality({j \in 1..i : IsSidLine(ls[j])}) <= 2}

InitFilt ==
    /\ script = "cocoex"
    /\ pc = "start"
    /\ run = 1
    /\ rows = <<>>
    /\ ann = EmptyDict
    /\ lines \in FiltCorpora
    /\ out = <<>>
    /\ file \in {NoFile} \cup {MarkBackchannel(lines, i) : i \in FiltMarks(lines)}
    /\ err = "none"
    /\ warned = 0
    /\ cnt = NoCount
    /\ report = NoReport

NextFilt == CocoExtract

SpecFilt == InitFilt /\ [][NextFilt]_vars

-----------------------------------------------------------------------------
(* C24 *)

\* the hard filters as stated, for A = sents[i] and B = sents[i + 1]
C24_Passes(sents, i, annotated) ==
    LET A == sents[i]
        B == sents[i + 1]
        words == {k \in 1..Len(B.tokens) : B.tokens[k].upos # "PUNCT"}
    IN /\ A.tokens # <<>>
       /\ A.tokens[Len(A.tokens)].form \notin {".", "?", "!", "..."}
       /\ B.sent_id \notin annotated
       /\ words # {}
       /\ \E k \in words : ~is_filler_token(B.tokens[k])
       /\ \E k \in words :
             /\ \A m \in words : k <= m
             /\ ~is_filler_token(B.tokens[k])

\* the adjacent pairs of one document with different non-empty speakers
C24_Pairs(sents) ==
    {i \in 1..(Len(sents) - 1) :
        /\ sents[i].doc = sents[i + 1].doc
        /\ sents[i].speaker # "" /\ sents[i + 1].speaker # ""
        /\ sents[i].speaker # sents[i + 1].speaker}

\* C24: an adjacent pair of one document with different non-empty speakers
\* is a row of the candidate table exactly if it passes the hard filters, and
\* the table has no other row; the soft signals exclude nothing.
C24_HardFiltersExactly ==
    (script = "cocoex" /\ pc = "extracted") =>
        LET sents == parse_conllu(lines)
            annotated == load_annotated_backchannels(file)
        IN /\ \A i \in C24_Pairs(sents) :
                C24_Passes(sents, i, annotated)
                <=> \E k \in 1..Len(rows) :
                       /\ rows[k].a_sent_id = sents[i].sent_id
                       /\ rows[k].b_sent_id = sents[i + 1].sent_id
           /\ Len(rows) =
                 Cardinality({i \in C24_Pairs(sents) : C24_Passes(sents, i, annotated)})

\* a pair is emitted although no orphan is near the end of A, A does not
\* continue and B has a question mark and starts like a backchannel
C24_Witness ==
    /\ script = "cocoex" /\ pc = "extracted"
    /\ Len(rows) = 1
    /\ ~rows[1].orphan_tail /\ ~rows[1].a_continues
    /\ rows[1].b_has_question_mark /\ rows[1].len = 1
    /\ rows[1].a_sent_id = "s1"
    /\ parse_conllu(lines)[2].tokens[1].form = "ja"

-----------------------------------------------------------------------------
(* C25 *)

\* the pair (sents[i], sents[i + 1]) of the scenario: A ends in a word whose
\* deprel is orphan, B is by another speaker in the same document, is not
\* annotated as a backchannel and has three tokens, none PUNCT or filler
C25_Scenario(sents, i, annotated) ==
    LET A == sents[i]
        B == sents[i + 1]
    IN /\ i \in C24_Pairs(sents)
       /\ A.tokens # <<>>
       /\ A.tokens[Len(A.tokens)].upos # "PUNCT"
       /\ A.tokens[Len(A.tokens)].deprel = "orphan"
       /\ B.sent_id \notin annotated
       /\ Len(B.tokens) = 3
       /\ \A k \in 1..3 : B.tokens[k].upos # "PUNCT" /\ ~is_filler_token(B.tokens[k])

C25_OrphanInLastThree(A) ==
    LET words == {k \in 1..Len(A.tokens) : A.tokens[k].upos # "PUNCT"}
    IN \E k \in words :
          /\ A.tokens[k].deprel = "orphan"
          /\ Cardinality({m \in words : m > k}) <= 2

-----------------------------------------------------------------------------
(* compare_pair on a file and a copy with any lines altered, cut or added *)

CatFiles ==
    {<<SidLine("s1"), Root("1", <<Underscore>>), Dep("2", "1"), ShortLine, BlankLine>>,
     <<SidLine("s1"), Root("1", <<BcOld>>), SpaceLine, BlankLine>>}

\* the lines that may stand for a line in the second file
CatAlternatives(line) ==
    {line}
    \cup (CASE line.kind = "sid" -> {SidLine("s2"), BlankLine}
            [] line.kind = "tok" ->
                 {WithMisc(line, m) :
                     m \in {<<SpaceAfter>>, <<BcFeature("s1", "1")>>,
                            <<BcOld, CocoOld>>,
                            <<BcFeature("s1", "1"), CocoOld>>}}
                 \cup {[line EXCEPT !.cols.form = "x"],
                       [line EXCEPT !.cols.deprel = "dep",
                                    !.cols.misc = <<BcFeature("s1", "1")>>],
                       ShortLine, CommentLine, BlankLine}
            [] line.kind = "blank" -> {SpaceLine, CommentLine}
            [] OTHER -> {Root("2", <<Underscore>>), CommentLine, BlankLine})

\* the lines that may follow in the second file
CatTails == {<<>>, <<BlankLine>>, <<Root("1", <<Underscore>>), BlankLine>>}

InitCat ==
    /\ script = "cat"
    /\ pc = "start"
    /\ run = 1
    /\ rows = <<>>
    /\ ann = EmptyDict
    /\ lines \in CatFiles
    /\ out = <<>>
    /\ file = NoFile
    /\ err = "none"
    /\ warned = 0
    /\ cnt = NoCount
    /\ report = NoReport

\* the second file: the first n lines, each as it was or altered, and a tail
CatAlter ==
    /\ script = "cat" /\ pc = "start"
    /\ \E n \in 0..Len(lines) : \E t \in CatTails :
         \E f \in [1..n -> UNION {CatAlternatives(lines[i]) : i \in 1..Len(lines)}] :
           /\ \A i \in 1..n : f[i] \in CatAlternatives(lines[i])
           /\ n < Len(lines) => t = <<>>
           /\ file' = f \o t
    /\ pc' = "done"
    /\ UNCHANGED <<script, run, rows, ann, lines, out, err, warned, cnt, report>>

NextCat == CatAlter \/ DiffCheck

SpecCat == InitCat /\ [][NextCat]_vars

-----------------------------------------------------------------------------
(* C27 *)

\* the line indices at which the two files differ
C27_Differing == 
    {i \in 1..Max(Len(lines), Len(file)) :
        i > Len(lines) \/ i > Len(file) \/ lines[i] # file[i]}

\* the differing indices where both files have a 10-column line with the
\* same first nine columns
C27_MiscOnly ==
    {i \in C27_Differing :
        /\ i <= Len(lines) /\ i <= Len(file)
        /\ lines[i].kind = "tok" /\ file[i].kind = "tok"
        /\ [lines[i].cols EXCEPT !.misc = <<>>] = [file[i].cols EXCEPT !.misc = <<>>]}

\* the second file has a Backchannel= or Coconstruct= that the first has not
C27_Sanctioned(i) ==
    \E key \in {"Backchannel", "Coconstruct"} :
        /\ \E m \in 1..Len(file[i].cols.misc) : file[i].cols.misc[m].k = key
        /\ \A m \in 1..Len(lines[i].cols.misc) : lines[i].cols.misc[m].k # key

\* C27: diff_lines counts the line indices at which the two files differ and
\* is the sum of line_count_mismatch, meta_or_blank_changed,
\* non_10col_token_changed, token_cols_0_8_changed and misc_only_changes;
\* misc_only_changes counts the lines that differ in column 10 only, and
\* misc_other_change counts those of them that are no sanctioned addition.
C27_ExactlyOneCategory ==
    (script = "cat" /\ pc = "checked") =>
        /\ cnt.diff_lines = Cardinality(C27_Differing)
        /\ cnt.diff_lines =
              cnt.line_count_mismatch + cnt.meta_or_blank_changed
              + cnt.non_10col_token_changed + cnt.token_cols_0_8_changed
              + cnt.misc_only_changes
        /\ cnt.misc_only_changes = Cardinality(C27_MiscOnly)
        /\ cnt.misc_other_change =
              Cardinality({i \in C27_MiscOnly : ~C27_Sanctioned(i)})
        /\ cnt.misc_only_changes - cnt.misc_other_change =
              Cardinality({i \in C27_MiscOnly : C27_Sanctioned(i)})

\* seven differing lines: two beyond the end of the first file, two comment
\* or blank lines, one line that is not of 10 columns, one with another
\* form, and one that differs in column 10 only, by a sanctioned addition
C27_Witness ==
    /\ script = "cat" /\ pc = "checked"
    /\ cnt.diff_lines = 7
    /\ cnt.line_count_mismatch = 2 /\ cnt.meta_or_blank_changed = 2
    /\ cnt.non_10col_token_changed = 1 /\ cnt.token_cols_0_8_changed = 1
    /\ cnt.misc_only_changes = 1 /\ cnt.misc_other_change = 0
    /\ cnt.added_backchannel = 1

-----------------------------------------------------------------------------
(* C29 *)

\* no sentence id is stated twice
C29_UniqueIds ==
    \A i \in 1..Len(lines) : \A j \in 1..Len(lines) :
        (IsSidLine(lines[i]) /\ IsSidLine(lines[j]) /\ i # j) => lines[i].sid # lines[j].sid

\* C29: when the corpus states no sentence id twice and the decisions have
\* passed validate_references, apply_annotations counts one applied decision
\* per decision, the root token line of every target holds the feature of
\* its decision afterwards, and no other line is changed.
C29_EveryDecisionApplied ==
    (script = "coco" /\ pc = "applied" /\ run = 1 /\ C29_UniqueIds) =>
        /\ rows[1].applied = Cardinality(DOMAIN ann)
        /\ \A b \in DOMAIN ann : \A i \in RootLines(lines, b) :
              InMisc(CocoFeature(ann[b]), out[i].cols.misc)
        /\ \A i \in 1..Len(lines) :
              out[i] # lines[i] => \E b \in DOMAIN ann : i \in RootLines(lines, b)

\* the root of a target is found by deprel = "root" alone
C29_DeprelRootOnly ==
    \E b \in DOMAIN ann : \E i \in RootLines(lines, b) : lines[i].cols.head # "0"

\* a sentence block without a sent_id comment
C29_BlockWithoutId ==
    \E i \in 1..Len(lines) : IsTokenLine(lines[i]) /\ BlockSids(lines, i) = {}

-----------------------------------------------------------------------------
(* scripts/06_split_final_corpus.py *)

\* the longest reference split of the model, in sentences
MaxRefLen == 2

\* lines 16-27 of parse_blocks: the runs of lines between blank lines
RECURSIVE BlocksFrom(_, _, _, _)
BlocksFrom(ls, i, cur, blocks) ==
    LET closed == IF cur # <<>> THEN Append(blocks, cur) ELSE blocks
    IN IF i > Len(ls) THEN closed
       ELSE IF IsBlankStripped(ls[i]) THEN BlocksFrom(ls, i + 1, <<>>, closed)
       ELSE BlocksFrom(ls, i + 1, Append(cur, ls[i]), blocks)

\* lines 31-35: the sent_id of the first sent_id comment of a block, or None
FirstSid(b) ==
    IF \E i \in 1..Len(b) : IsSidLine(b[i])
    THEN b[CHOOSE i \in 1..Len(b) :
             IsSidLine(b[i]) /\ \A j \in 1..(i - 1) : ~IsSidLine(b[j])].sid
    ELSE None

\* parse_blocks(path): the (sid, block) pairs, or ValueError for a block
\* without sent_id
parse_blocks(ls) ==
    LET bs == BlocksFrom(ls, 1, <<>>, <<>>)
    IN IF \E k \in 1..Len(bs) : FirstSid(bs[k]) = None
       THEN [error |-> "ValueError", blocks |-> <<>>]
       ELSE [error |-> "none",
             blocks |-> [k \in 1..Len(bs) |-> [sid |-> FirstSid(bs[k]), block |-> bs[k]]]]

\* {sid: block for sid, block in merged_blocks}: the last block of a sid stays
merged_map(blocks) ==
    [sid \in {blocks[k].sid : k \in 1..Len(blocks)} |->
        blocks[CHOOSE k \in 1..Len(blocks) :
                  /\ blocks[k].sid = sid
                  /\ \A m \in (k + 1)..Len(blocks) : blocks[m].sid # sid].block]

\* [sid for sid, _ in parse_blocks(path)]
SidOrder(blocks) == [k \in 1..Len(blocks) |-> blocks[k].sid]

SeqSet(s) == {s[k] : k \in 1..Len(s)}

\* the lines write_split writes: every block followed by an empty line
RECURSIVE write_split(_, _)
write_split(sids, map) ==
    IF sids = <<>> THEN <<>>
    ELSE map[Head(sids)] \o <<BlankLine>> \o write_split(Tail(sids), map)

\* lines 75-105 of main: the error raised, if any
SplitError(merged, train, dev, test) ==
    IF \/ merged.error # "none" \/ train.error # "none"
       \/ dev.error # "none" \/ test.error # "none"
    THEN "ValueError"
    ELSE LET tr == SeqSet(SidOrder(train.blocks))
             de == SeqSet(SidOrder(dev.blocks))
             te == SeqSet(SidOrder(test.blocks))
             ms == DOMAIN merged_map(merged.blocks)
         IN IF tr \cap de # {} \/ tr \cap te # {} \/ de \cap te # {} THEN "ValueError"
            ELSE IF (tr \cup de \cup te) # ms THEN "ValueError"
            ELSE IF ~((tr \cup de \cup te) \subseteq ms) THEN "ValueError"
            ELSE "none"

\* the sentence blocks of the merged file and of the reference splits
SplitBlock(s, misc) == <<SidLine(s), Root("1", misc)>>
SplitBlocks ==
    {SplitBlock(s, m) : s \in SentIds, m \in {<<Underscore>>, <<BcFeature("s1", "1")>>}}

\* merged files of at most MaxSents sentences, written by the merge steps;
\* one with a comment before the sent_id and one with a block without sent_id
MergedFiles ==
    {Flatten(bs) : bs \in UNION {[1..n -> SplitBlocks] : n \in 0..MaxSents}}
    \cup {<<CommentLine>> \o SplitBlock("s1", <<Underscore>>) \o <<BlankLine>>,
          <<Root("1", <<Underscore>>), BlankLine>>}

\* a reference split that lists the sentences of order
RefFile(order) == Flatten([k \in 1..Len(order) |-> SplitBlock(order[k], <<Underscore>>)])

RefOrders == UNION {[1..n -> SentIds] : n \in 0..MaxRefLen}

InitSplit ==
    /\ script = "split"
    /\ pc = "start"
    /\ run = 1
    /\ rows = <<>>
    /\ ann \in {[train |-> RefFile(a), dev |-> RefFile(b), test |-> c] :
                  a \in RefOrders, b \in RefOrders,
                  c \in {<<>>, RefFile(<<"s2">>), <<BlankLine, SpaceLine>>,
                         <<CommentLine, BlankLine>>}}
    /\ lines \in MergedFiles
    /\ out = <<>>
    /\ file = NoFile
    /\ err = "none"
    /\ warned = 0
    /\ cnt = NoCount
    /\ report = NoReport

\* main, lines 75-105: the four files are parsed and the splits validated
SplitCheck ==
    /\ script = "split" /\ pc = "start"
    /\ LET e == SplitError(parse_blocks(lines), parse_blocks(ann.train),
                           parse_blocks(ann.dev), parse_blocks(ann.test))
       IN /\ err' = e
          /\ pc' = IF e = "none" THEN "validated" ELSE "aborted"
    /\ UNCHANGED <<script, run, rows, ann, lines, out, file, warned, cnt, report>>

\* main, lines 107-114: the three split files are written
SplitWrite ==
    /\ script = "split" /\ pc = "validated"
    /\ LET map == merged_map(parse_blocks(lines).blocks)
       IN out' = [train |-> write_split(SidOrder(parse_blocks(ann.train).blocks), map),
                  dev |-> write_split(SidOrder(parse_blocks(ann.dev).blocks), map),
                  test |-> write_split(SidOrder(parse_blocks(ann.test).blocks), map)]
    /\ pc' = "done"
    /\ UNCHANGED <<script, run, rows, ann, lines, file, err, warned, cnt, report>>

NextSplit == SplitCheck \/ SplitWrite

SpecSplit == InitSplit /\ [][NextSplit]_vars

-----------------------------------------------------------------------------
(* C30 *)

\* the blocks of a file: the runs of lines between blank lines
C30_Blocks(ls) == BlocksFrom(ls, 1, <<>>, <<>>)

\* how often block b stands in the file
C30_Count(ls, b) ==
    Cardinality({k \in 1..Len(C30_Blocks(ls)) : C30_Blocks(ls)[k] = b})

\* the sentence ids a file states, in order
C30_Sids(ls) == SidSequence(ls)

\* two reference splits share a sentence id, or the ids of the three differ
\* from those of the merged file
C30_BadSplits ==
    LET tr == SeqSet(C30_Sids(ann.train))
        de == SeqSet(C30_Sids(ann.dev))
        te == SeqSet(C30_Sids(ann.test))
    IN \/ tr \cap de # {} \/ tr \cap te # {} \/ de \cap te # {}
       \/ (tr \cup de \cup te) # SeqSet(C30_Sids(lines))

C30_RepeatedId ==
    \E ls \in {lines, ann.train, ann.dev, ann.test} :
        \E i \in 1..Len(ls) : \E j \in 1..Len(ls) :
            i # j /\ IsSidLine(ls[i]) /\ IsSidLine(ls[j]) /\ ls[i].sid = ls[j].sid

====
